---------------------------- MODULE Spec2Model ----------------------------
(***************************************************************************)
(* A model of evogit, the git-native evolutionary engine of this           *)
(* repository: the conflict resolver (utils/git.py), the genetic operators *)
(* and the fitness evaluator (api.py), the batch drivers                   *)
(* (evox_extension.py) and the cross-host migration of notes.              *)
(*                                                                         *)
(* The module holds several specifications, one per component; each one    *)
(* leaves the variables of the other components unchanged.                 *)
(***************************************************************************)
EXTENDS Integers, Sequences, FiniteSets, TLC

VARIABLES
    \* ---- conflict resolver (utils/git.py handle_conflict) ----
    content,      \* the conflicted file's text, a sequence of tokens
    strategy,     \* the accept-ours draws, one per counted conflict
    resolved,     \* the text handle_conflict wrote back
    resPc,        \* "read" | "drawn" | "done"
    \* ---- genome store and genetic operators (api.py, utils/git.py) ----
    objects,      \* the commit objects; a commit's id is its index
    topHead,      \* HEAD of the shared top-level working directory (config.git_dir)
    wt,           \* per operator call: the temporary worktree it prepared
    proc,         \* per operator call: its position, inputs and result
    xo,           \* the batch crossover driver (evogit_git_crossover)
    maxRetry,     \* config.max_merge_retry
    clock,        \* the time (and author) `git commit` stamps a commit with
    notes,        \* refs/notes/commits: commit id -> note or NoNote
    \* ---- batch evaluation and linting (evox_extension.py, api.py) ----
    ev,           \* the evaluate() call in progress, or the last one
    worktrees,    \* the temporary worktrees under .phylox_evaluate
    reevaluate,   \* config.reevaluate
    \* ---- hosts sharing one remote (api.py, utils/git.py) ----
    hosts,        \* per host: its notes, fetched namespaces, remote-tracking branches
    remote,       \* the shared remote: notes namespaces and branches
    mig,          \* the migrate_from_other_hosts call of a host
    evalCount,    \* runs of the evaluation command, over all hosts
    \* ---- numeric merge drivers (scripts/vector_merge_driver*.py) ----
    vx,           \* one run of a merge driver: its inputs, draws and output
    \* ---- decoding of evaluation results (api.py decode_result) ----
    dc,           \* one call of decode_result: its arguments and result
    \* ---- human tags (api.py migrate_from_human_tags) ----
    tg,           \* the tags of the repository and the last call on them
    \* ---- publishing a generation (api.py update_branches) ----
    br,           \* the branches of one host's repository and the publish under way
    \* ---- the initial population (api.py get_initial_branches) ----
    bs,           \* one call of get_initial_branches: the repository it sees and its result
    \* ---- pruning (git.py prune) ----
    gc,           \* the objects, refs and notes of a repository and the last prune
    \* ---- synchronisation with the remote (evox_extension.py git_update) ----
    sy,           \* the git_update call under way and the processes it started
    \* ---- commit messages (utils/git.py git_commit_message_pattern) ----
    ms,           \* one commit call: the operator's message and the message handed to git
    \* ---- random choices (api.py git_crossover, _gather_info; vector_merge_driver2.py) ----
    rn,           \* the state of Python's module-level generator and the operator runs so far
    \* ---- breadth-first solver (packages/validation/src/solvers.py) ----
    bf,           \* one call of BFSSolver.solve: its arguments, locals and result
    \* ---- candidates of a migration from other hosts (api.py migrate_from_other_hosts) ----
    cd,           \* one call: the local hostname, the branches on the remote, the candidates
    \* ---- the loop of a crossover by rebase (api.py git_rebase) ----
    rb,           \* one git_rebase call: the commits still to replay and the rounds so far
    \* ---- failure context of a whole-file mutation (api.py _construct_prompt) ----
    pm,           \* one _construct_prompt call: the notes of the batch and the CodeInfo built
    \* ---- the window of a constrained mutation (api.py _generate_random_section) ----
    cm,           \* one genome of llm_constrained_mutation: the section drawn and the prompt code
    \* ---- pipeline (packages/orchestration/src/pipeline.py) ----
    pl            \* one Pipeline.run: the stages, the loop position and the results

resVars == <<content, strategy, resolved, resPc>>
opVars == <<objects, topHead, wt, proc, xo, maxRetry, clock>>
evVars == <<ev, worktrees, reevaluate>>
migVars == <<hosts, remote, mig, evalCount>>
restVars == <<vx, dc, tg, br, bs, gc, sy, ms, rn, bf, cd, rb, pm, cm, pl>>
oldVars == <<resVars, opVars, notes, evVars, migVars>>
notVx == <<oldVars, dc, tg, br, bs, gc, sy, ms, rn, bf, cd, rb, pm, cm, pl>>
notDc == <<oldVars, vx, tg, br, bs, gc, sy, ms, rn, bf, cd, rb, pm, cm, pl>>
notTg == <<oldVars, vx, dc, br, bs, gc, sy, ms, rn, bf, cd, rb, pm, cm, pl>>
notBr == <<oldVars, vx, dc, tg, bs, gc, sy, ms, rn, bf, cd, rb, pm, cm, pl>>
notBs == <<oldVars, vx, dc, tg, br, gc, sy, ms, rn, bf, cd, rb, pm, cm, pl>>
notGc == <<oldVars, vx, dc, tg, br, bs, sy, ms, rn, bf, cd, rb, pm, cm, pl>>
notSy == <<oldVars, vx, dc, tg, br, bs, gc, ms, rn, bf, cd, rb, pm, cm, pl>>
notMs == <<oldVars, vx, dc, tg, br, bs, gc, sy, rn, bf, cd, rb, pm, cm, pl>>
notRn == <<oldVars, vx, dc, tg, br, bs, gc, sy, ms, bf, cd, rb, pm, cm, pl>>
notBf == <<oldVars, vx, dc, tg, br, bs, gc, sy, ms, rn, cd, rb, pm, cm, pl>>
notCd == <<oldVars, vx, dc, tg, br, bs, gc, sy, ms, rn, bf, rb, pm, cm, pl>>
notRb == <<oldVars, vx, dc, tg, br, bs, gc, sy, ms, rn, bf, cd, pm, cm, pl>>
notPm == <<oldVars, vx, dc, tg, br, bs, gc, sy, ms, rn, bf, cd, rb, cm, pl>>
notCm == <<oldVars, vx, dc, tg, br, bs, gc, sy, ms, rn, bf, cd, rb, pm, pl>>
notPl == <<oldVars, vx, dc, tg, br, bs, gc, sy, ms, rn, bf, cd, rb, pm, cm>>

vars == <<content, strategy, resolved, resPc,
          objects, topHead, wt, proc, xo, maxRetry, clock, notes,
          ev, worktrees, reevaluate, hosts, remote, mig, evalCount,
          vx, dc, tg, br, bs, gc, sy,
          ms,
          rn,
          bf,
          cd,
          rb,
          pm,
          cm,
          pl>>

(***************************************************************************)
(* BOUNDS AND IDLE STATES                                                  *)
(***************************************************************************)
MaxObjects == 3    \* commit objects the store may hold
MaxStamp == 1      \* the clock that stamps commits runs over 0..MaxStamp
MaxRetry == 1      \* config.max_merge_retry ranges over 0..MaxRetry
PopSize == 2       \* individuals handed to the batch crossover driver
NProcs == 2        \* operator calls that may be in progress
NHosts == 2        \* hosts sharing the remote
NGenomes == 2      \* genomes the hosts evaluate and publish
MaxEvals == 2      \* runs of the evaluation command, over all hosts
MaxWorktrees == 3  \* temporary worktrees that may exist at a time
VecLen == 2        \* coordinates of a vector genome
MaxLimit == 2
MaxRuns == 2
MaxSeed == 1
RngPeriod == 4
MaxRunsLogged == 2
MaxConflictBlocks == 1
MaxPos == 1
MaxExpansions == 4
MaxIndex == 1
MaxReplayed == 3
MaxIdleRounds == 2
MaxBatch == 2
MaxStages == 2
MaxStageRetries == 1
MaxGeneration == 3
MaxEvery == 2
MaxBranches == 2
MaxPop == 3
MaxAbs == 1        \* vector values range over -MaxAbs..MaxAbs
FactorDen == 2     \* blending factors are the fractions k / FactorDen

Procs == 1..NProcs
Commits == 1..MaxObjects
Hosts == 1..NHosts
Genomes == 1..NGenomes

\* A file's bytes, token by token: "CR" and "LF" are the two line-end bytes.
SeedContent == <<"a", "LF">>
FileContents == {<<"a", "LF">>, <<"b", "LF">>, <<"a", "CR", "LF">>}

\* init_git_repo: the seed file committed with message "init"
SeedCommit == [tree |-> SeedContent, parents |-> <<>>, meta |-> 0]

\* evaluate_code's result dict {"stdout", "stderr", "timeout"}, by the three
\* shapes decode_result tells apart: stdout a JSON with status "finished",
\* any other stdout, and a timeout (stdout "").
RecFinished == [stdout |-> "finished", timeout |-> FALSE]
RecInvalid == [stdout |-> "other", timeout |-> FALSE]
RecTimeout == [stdout |-> "", timeout |-> TRUE]
FitnessRecords == {RecFinished, RecInvalid, RecTimeout}

\* A note is text.  fmt tells what the text is: "json" the json.dumps of a
\* result dict (whose fields the note then carries), "text" the raw output
\* of a linter, "none" no note at all.
NoNote == [fmt |-> "none", stdout |-> "", timeout |-> FALSE]
LintText == [fmt |-> "text", stdout |-> "", timeout |-> FALSE]

\* json.dumps(result)
json_dumps(result) == [fmt |-> "json", stdout |-> result.stdout, timeout |-> result.timeout]

\* Does json.loads(note) raise json.JSONDecodeError?
json_loads_raises(note) == note.fmt # "json"

\* json.loads(note) of a note that parses
json_loads(note) == [stdout |-> note.stdout, timeout |-> note.timeout]

NotePayloads == {json_dumps(r) : r \in FitnessRecords} \cup {LintText}
NoNotes == [c \in Commits |-> NoNote]

NoWorktree == [on |-> FALSE, head |-> 0, file |-> <<>>, aux |-> FALSE]

IdleProc ==
    [pc |-> "idle", kind |-> "none", c1 |-> 0, c2 |-> 0, new |-> <<>>,
     mode |-> "none", auxfile |-> FALSE, result |-> 0, via |-> "none",
     cwd |-> "none", made |-> FALSE, commit_failed |-> FALSE]

IdleXo == [pc |-> "idle", pop |-> <<>>, n |-> 0, retry |-> 0, c1 |-> 0, c2 |-> 0]

IdleEv ==
    [pc |-> "idle", pop |-> <<>>, unique |-> <<>>, out |-> <<>>, fitness |-> <<>>,
     overwrote |-> {}]

EvIdle ==
    /\ ev = IdleEv
    /\ worktrees = <<>>
    /\ reevaluate = FALSE

EmptyNamespace == [g \in Genomes |-> NoNote]

\* A host that has cloned the remote and done nothing yet.
FreshHost ==
    [notes |-> EmptyNamespace,
     fetched |-> [k \in Hosts |-> EmptyNamespace],
     branches |-> {},
     tracking |-> [k \in Hosts |-> {}]]

EmptyRemote ==
    [notes |-> [k \in Hosts |-> EmptyNamespace], branches |-> [k \in Hosts |-> {}]]

\* The record of a migrate_from_other_hosts call: the host's notes before
\* and after it, the namespaces it had fetched, the commits of the remote
\* branches it looked at and the commits it returned.
IdleMig ==
    [pc |-> "idle", host |-> 0, before |-> EmptyNamespace,
     fetched |-> [k \in Hosts |-> EmptyNamespace], after |-> EmptyNamespace,
     candidates |-> {}, commits |-> <<>>, evalsBefore |-> 0, evalsAfter |-> 0]

MigIdle ==
    /\ hosts = [h \in Hosts |-> FreshHost]
    /\ remote = EmptyRemote
    /\ mig = IdleMig
    /\ evalCount = 0

IdleVx ==
    [pc |-> "idle", driver |-> 0, ancestor |-> <<>>, parent1 |-> <<>>,
     parent2 |-> <<>>, factor1 |-> <<>>, factor2 |-> <<>>, child |-> <<>>]

VecIdle == vx = IdleVx

IdleDc ==
    [pc |-> "idle", output |-> [stdout |-> "", stderr |-> "", timeout |-> FALSE],
     illegal_value |-> "", performance_cost |-> "", time_cost |-> "", raised |-> FALSE]

DecIdle == dc = IdleDc

\* A tag name is its characters in two pieces, so that startswith("human")
\* is a test on the first piece.  TagNames is in the order `git tag` lists.
TagNames == << <<"human", "-a">>, <<"human", "-b">>, <<"in", "human">> >>

NoTag == [kind |-> "none", commit |-> 0]

IdleTg ==
    [pc |-> "idle", tags |-> [i \in DOMAIN TagNames |-> NoTag], limit |-> 0,
     taken |-> <<>>, commits |-> <<>>]

TagIdle == tg = IdleTg

\* The branch names "<hostname>-individual-<index>", index from 0
BranchNames == Hosts \X (0..(PopSize - 1))

NoBranches == [b \in BranchNames |-> 0]

IdleBr ==
    [pc |-> "idle", refs |-> NoBranches, pop |-> <<>>, left |-> {}, before |-> NoBranches]

BranchIdle == br = IdleBr

IdleBs ==
    [pc |-> "idle", clean_start |-> FALSE, local |-> <<>>, remote |-> <<>>,
     head |-> 0, main |-> 0, pop_size |-> 0, pop |-> <<>>]

BootIdle == bs = IdleBs

IdleGc ==
    [pc |-> "idle", parent |-> <<>>, objects |-> {}, branches |-> {}, tags |-> {},
     notes |-> {}, expired |-> {},
     before |-> [objects |-> {}, branches |-> {}, tags |-> {}, notes |-> {}]]

PruneIdle == gc = IdleGc

IdleSy ==
    [pc |-> "idle", generation |-> 0, fetch_every |-> 0, push_every |-> 0,
     handlers |-> <<>>, waited |-> {}, outstanding |-> FALSE]

SyncIdle == sy = IdleSy

IdleMs == [pc |-> "idle", via |-> "none", message |-> <<>>, handed |-> <<>>, again |-> <<>>]

MsgIdle == ms = IdleMs

IdleRn == [state |-> 0, log |-> <<>>]

RandomIdle == rn = IdleRn

IdleBf == [pc |-> "idle", initial |-> [pos |-> 0, kind |-> "list"], goal |-> {},
           actions |-> <<>>, max_expansions |-> 0, visited |-> {}, queue |-> <<>>,
           expansions |-> 0, result |-> [success |-> FALSE]]

SolverIdle == bf = IdleBf

IdleCd == [pc |-> "idle", hostname |-> <<>>, published |-> {}, branches |-> {}]

CandidatesIdle == cd = IdleCd

IdleRb == [pc |-> "idle", todo |-> <<>>, made |-> 0, dropped |-> 0, idle_rounds |-> 0]

RebaseIdle == rb = IdleRb

IdlePm == [pc |-> "idle", batch |-> <<>>, code_infos |-> <<>>, raised |-> "none"]

PromptIdle == pm = IdlePm

IdleCm == [pc |-> "idle", n_lines |-> 0, random_length |-> 0, random_section_start |-> 0,
           random_section_end |-> 0, prompt_code |-> <<>>]

WindowIdle == cm = IdleCm

IdlePl == [pc |-> "idle", stages |-> <<>>, at |-> 0, attempt |-> 0, last_error |-> "None",
           results |-> <<>>, success |-> TRUE, invoked |-> {}, returned |-> {},
           attempts |-> <<>>]

PipelineIdle == pl = IdlePl

RestIdle ==
    VecIdle /\ DecIdle /\ TagIdle /\ BranchIdle /\ BootIdle /\ PruneIdle /\ SyncIdle
        /\ MsgIdle
        /\ RandomIdle
        /\ SolverIdle
        /\ CandidatesIdle
        /\ RebaseIdle
        /\ PromptIdle
        /\ WindowIdle
        /\ PipelineIdle

ResIdle ==
    /\ content = <<>>
    /\ strategy = <<>>
    /\ resolved = <<>>
    /\ resPc = "idle"

OpsIdle ==
    /\ objects = <<SeedCommit>>
    /\ topHead = 1
    /\ wt = [p \in Procs |-> NoWorktree]
    /\ proc = [p \in Procs |-> IdleProc]
    /\ xo = IdleXo
    /\ maxRetry = 0
    /\ clock = 0

(***************************************************************************)
(* CONFLICT RESOLVER                                                       *)
(*                                                                         *)
(* Text is a sequence of tokens.  "<", "=" and ">" stand for the three     *)
(* seven-character marker strings, "n" for a newline and "x" for any other *)
(* run of characters without a newline or a marker string.                 *)
(***************************************************************************)
MaxSegments == 2   \* segments (plain lines or conflict blocks) per file
MaxSide == 2       \* lines in the ours / theirs side of a block

RECURSIVE Flatten(_)
Flatten(ss) == IF ss = <<>> THEN <<>> ELSE Head(ss) \o Flatten(Tail(ss))

\* A content line of a parent's file: a plain line, or a line that contains
\* (but does not begin with) a run of seven '=' such as   # ======= part 2
PlainLine == <<"x", "n">>
EmbeddedLine == <<"x", "=", "n">>
ContentLines == {PlainLine, EmbeddedLine}

SideTexts == {Flatten(ls) : ls \in UNION {[1..k -> ContentLines] : k \in 0..MaxSide}}

\* The conflict marker format git writes:
\*   <<<<<<< HEAD\n <ours> =======\n <theirs> >>>>>>> <label>\n
ConflictBlock(ours, theirs) ==
    <<"<", "x", "n">> \o ours \o <<"=", "n">> \o theirs \o <<">", "x", "n">>

Segments == {PlainLine} \cup {ConflictBlock(o, t) : o \in SideTexts, t \in SideTexts}

ConflictTexts == {Flatten(ss) : ss \in UNION {[1..k -> Segments] : k \in 0..MaxSegments}}

\* Index of the first token tok at or after position i, 0 when there is none.
FindFrom(s, tok, i) ==
    IF \E j \in i..Len(s) : s[j] = tok
    THEN CHOOSE j \in i..Len(s) : s[j] = tok /\ \A k \in i..(j - 1) : s[k] # tok
    ELSE 0

\* git_conflict_pattern tried at the "<" at position i.  Every quantifier of
\* the pattern is lazy, so each part ends at the first occurrence of what
\* follows it; the pattern is compiled with DOTALL and not MULTILINE, so no
\* part is tied to the start of a line.
\*   <<<<<<<.*?\n (.*?) =======.*?\n (.*?) >>>>>>>.*?\n
MatchAt(s, i) ==
    LET n1 == FindFrom(s, "n", i + 1)
        e  == IF n1 = 0 THEN 0 ELSE FindFrom(s, "=", n1 + 1)
        n2 == IF e = 0 THEN 0 ELSE FindFrom(s, "n", e + 1)
        g  == IF n2 = 0 THEN 0 ELSE FindFrom(s, ">", n2 + 1)
        n3 == IF g = 0 THEN 0 ELSE FindFrom(s, "n", g + 1)
    IN  [ok |-> n3 # 0,
         group1 |-> IF n3 # 0 THEN SubSeq(s, n1 + 1, e - 1) ELSE <<>>,
         group2 |-> IF n3 # 0 THEN SubSeq(s, n2 + 1, g - 1) ELSE <<>>,
         end |-> n3]

\* The next match of git_conflict_pattern at or after pos.
NextMatch(s, pos) ==
    LET i == FindFrom(s, "<", pos)
    IN  IF i = 0 THEN [ok |-> FALSE, start |-> 0, group1 |-> <<>>, group2 |-> <<>>, end |-> 0]
        ELSE LET m == MatchAt(s, i)
             IN  [ok |-> m.ok, start |-> i, group1 |-> m.group1,
                  group2 |-> m.group2, end |-> m.end]

RECURSIVE CountFrom(_, _)
CountFrom(s, pos) ==
    LET m == NextMatch(s, pos)
    IN  IF m.ok THEN 1 + CountFrom(s, m.end + 1) ELSE 0

\* count_conflicts: len(git_conflict_pattern.findall(content))
count_conflicts(s) == CountFrom(s, 1)

\* handle_one_conflict: group 1 (ours) on a True draw, group 2 (theirs) otherwise
handle_one_conflict(m, accept_ours) == IF accept_ours THEN m.group1 ELSE m.group2

RECURSIVE SubFrom(_, _, _, _)
SubFrom(s, pos, strat, k) ==
    LET m == NextMatch(s, pos)
    IN  IF m.ok
        THEN SubSeq(s, pos, m.start - 1)
                 \o handle_one_conflict(m, strat[k])
                 \o SubFrom(s, m.end + 1, strat, k + 1)
        ELSE SubSeq(s, pos, Len(s))

\* handle_conflict: git_conflict_pattern.sub(handle_one_conflict, content)
handle_conflict(s, strat) == SubFrom(s, 1, strat, 1)

\* A line of the text begins with one of the three marker strings.
HasMarkerLine(s) ==
    \E i \in 1..Len(s) :
        /\ s[i] \in {"<", "=", ">"}
        /\ (i = 1 \/ s[i - 1] = "n")

ResInit ==
    /\ RestIdle
    /\ content \in ConflictTexts
    /\ EvIdle
    /\ MigIdle
    /\ strategy = <<>>
    /\ resolved = <<>>
    /\ resPc = "read"
    /\ OpsIdle
    /\ notes = NoNotes

\* git_merge / git_rebase: count = count_conflicts(file); strategy =
\* random.choices([True, False], weights, k=count)
DrawStrategy ==
    /\ resPc = "read"
    /\ \E st \in [1..count_conflicts(content) -> BOOLEAN] : strategy' = st
    /\ resPc' = "drawn"
    /\ UNCHANGED <<content, resolved>>
    /\ UNCHANGED <<opVars, notes, evVars, migVars, restVars>>

\* handle_conflict(config, strategy, file): substitute and write back
HandleConflict ==
    /\ resPc = "drawn"
    /\ resolved' = handle_conflict(content, strategy)
    /\ resPc' = "done"
    /\ UNCHANGED <<content, strategy>>
    /\ UNCHANGED <<opVars, notes, evVars, migVars, restVars>>

ResNext == DrawStrategy \/ HandleConflict

SpecResolver == ResInit /\ [][ResNext]_vars

\* C6: after the resolver ran on a text of 0..N conflict blocks, with one
\* draw per block, the text it wrote has no line beginning with a conflict
\* marker (<<<<<<<, ======= or >>>>>>>).
C6_NoMarkersAfterResolve == resPc = "done" => ~HasMarkerLine(resolved)

(***************************************************************************)
(* GENOME STORE AND GENETIC OPERATORS                                      *)
(*                                                                         *)
(* A genome is a commit object [tree, parents, meta].  tree is the content *)
(* of the configured file (config.filename), taken as one merge hunk;      *)
(* meta stands for what else git hashes into a commit id: author,          *)
(* committer, dates and message.  The store is content-addressed: a commit *)
(* equal to a stored one gets that one's id.                               *)
(***************************************************************************)
TreeOf(objs, c) == objs[c].tree

HasObject(objs, rec) == \E i \in 1..Len(objs) : objs[i] = rec

\* The id `git commit` gives the commit object rec (the hash of its content).
CommitId(objs, rec) ==
    IF HasObject(objs, rec)
    THEN CHOOSE i \in 1..Len(objs) : objs[i] = rec
    ELSE Len(objs) + 1

\* A store that is not content-addressed: every commit is a new object.
StoreCommit_append(objs, rec) == Append(objs, rec)

\* The object store after `git commit` wrote rec.
StoreCommit(objs, rec) == IF HasObject(objs, rec) THEN objs ELSE Append(objs, rec)

\* The model's bound on the store: rec is stored already or there is room.
CanStore(objs, rec) == HasObject(objs, rec) \/ Len(objs) < MaxObjects

RECURSIVE AncestorsOf(_, _)
AncestorsOf(objs, c) ==
    {c} \cup UNION {AncestorsOf(objs, objs[c].parents[k]) : k \in 1..Len(objs[c].parents)}

\* fast_forwardness: `git merge-base --is-ancestor commit1 commit2` exits 0
fast_forwardness(objs, commit1, commit2) == commit1 \in AncestorsOf(objs, commit2)

\* is_novel_merge: neither commit is an ancestor of the other
is_novel_merge(objs, commit1, commit2) ==
    ~(fast_forwardness(objs, commit1, commit2) \/ fast_forwardness(objs, commit2, commit1))

\* Reading a file opened in text mode ("r+"): universal newlines turn
\* "\r\n" and a lone "\r" into "\n".
RECURSIVE UniversalNewlines(_)
UniversalNewlines(s) ==
    IF s = <<>> THEN <<>>
    ELSE IF Head(s) = "CR"
         THEN IF Len(s) >= 2 /\ s[2] = "LF"
              THEN <<"LF">> \o UniversalNewlines(SubSeq(s, 3, Len(s)))
              ELSE <<"LF">> \o UniversalNewlines(Tail(s))
         ELSE <<Head(s)>> \o UniversalNewlines(Tail(s))

\* f.read() of the file at HEAD under the mode update_file opened it in
ReadCurrent(bytes, mode) == IF mode = "text" THEN UniversalNewlines(bytes) ELSE bytes

\* The file content a merge or a replayed commit ends with: the file is one
\* hunk, so the result is one side's content (the clean side, or the side
\* the resolver's draw accepted).
MergedTrees(objs, ours, theirs) == {TreeOf(objs, ours), TreeOf(objs, theirs)}

Terminal(p) == proc[p].pc \in {"idle", "returned", "raised"}

\* No other operator call and no batch is in progress.
Quiet(p) ==
    /\ \A q \in Procs \ {p} : Terminal(q)
    /\ xo.pc \in {"idle", "done"}

\* May operator call p begin?  Sequentially (as the drivers of
\* evox_extension.py call the operators) only when nothing else runs.
MayBegin(p, concurrent) ==
    /\ Terminal(p)
    /\ (p = 1 => xo.pc \in {"idle", "done"})
    /\ (concurrent \/ Quiet(p))

\* evogit_crossover -> api.git_crossover(config, seed, commit1, commit2):
\* the weighted coin picks merge or rebase.  The pair is whatever the caller
\* passed: evogit_crossover applies no novelty guard.
BeginCrossover(p, concurrent) ==
    /\ MayBegin(p, concurrent)
    /\ \E a \in 1..Len(objects), b \in 1..Len(objects), use_merge \in BOOLEAN :
          proc' = [proc EXCEPT ![p] =
                      [IdleProc EXCEPT !.pc = "start",
                                       !.kind = IF use_merge THEN "merge" ELSE "rebase",
                                       !.c1 = a, !.c2 = b, !.via = "pairs"]]
    /\ UNCHANGED <<objects, topHead, wt, xo, maxRetry, clock, notes, resVars, evVars, migVars, restVars>>

\* llm_mutation / vector_mutation, one individual: git.update_file(config,
\* commit, new_content, message) with a str (text mode) or bytes (binary).
BeginUpdate(p, concurrent) ==
    /\ MayBegin(p, concurrent)
    /\ \E c \in 1..Len(objects), new \in FileContents, mode \in {"text", "binary"} :
          proc' = [proc EXCEPT ![p] =
                      [IdleProc EXCEPT !.pc = "start", !.kind = "update",
                                       !.c1 = c, !.new = new, !.mode = mode,
                                       !.via = "mutation"]]
    /\ UNCHANGED <<objects, topHead, wt, xo, maxRetry, clock, notes, resVars, evVars, migVars, restVars>>

\* git.checkout(config, commit): `git checkout --detach` in config.git_dir
Checkout(p) ==
    /\ proc[p].pc = "start"
    /\ proc[p].kind \in {"merge", "rebase", "update"}
    /\ topHead' = proc[p].c1
    /\ proc' = [proc EXCEPT ![p].pc = "checked", ![p].cwd = "top"]
    /\ UNCHANGED <<objects, wt, xo, maxRetry, clock, notes, resVars, evVars, migVars, restVars>>

\* git_merge after the checkout: merge_branches, then per conflicted file
\* count, draw, handle_conflict, and continue_merge; all in config.git_dir.
MergeStep(p) ==
    /\ proc[p].pc = "checked"
    /\ proc[p].kind = "merge"
    /\ LET head == topHead
           c2 == proc[p].c2
       IN  IF fast_forwardness(objects, c2, head)
           THEN \* already up to date
                /\ UNCHANGED <<objects, topHead>>
                /\ proc' = [proc EXCEPT ![p].pc = "applied"]
           ELSE IF fast_forwardness(objects, head, c2)
           THEN \* fast-forward
                /\ topHead' = c2
                /\ UNCHANGED objects
                /\ proc' = [proc EXCEPT ![p].pc = "applied"]
           ELSE \E t \in MergedTrees(objects, head, c2) :
                  LET rec == [tree |-> t, parents |-> <<head, c2>>, meta |-> clock]
                  IN  /\ CanStore(objects, rec)
                      /\ objects' = StoreCommit(objects, rec)
                      /\ topHead' = CommitId(objects, rec)
                      /\ proc' = [proc EXCEPT ![p].pc = "applied",
                                              ![p].made = ~HasObject(objects, rec)]
    /\ UNCHANGED <<wt, xo, maxRetry, clock, notes, resVars, evVars, migVars, restVars>>

\* git_rebase after the checkout: rebase_branches, then while a conflict
\* shows count, draw, handle_conflict and continue_rebase.  The replayed
\* commits end as one commit on top of commit2; a replay that leaves
\* commit2's content is dropped as empty.
RebaseStep(p) ==
    /\ proc[p].pc = "checked"
    /\ proc[p].kind = "rebase"
    /\ LET head == topHead
           c2 == proc[p].c2
       IN  IF fast_forwardness(objects, c2, head)
           THEN \* up to date
                /\ UNCHANGED <<objects, topHead>>
                /\ proc' = [proc EXCEPT ![p].pc = "applied"]
           ELSE IF fast_forwardness(objects, head, c2)
           THEN \* nothing to replay: HEAD moves to commit2
                /\ topHead' = c2
                /\ UNCHANGED objects
                /\ proc' = [proc EXCEPT ![p].pc = "applied"]
           ELSE \E t \in MergedTrees(objects, head, c2) :
                  LET rec == [tree |-> t, parents |-> <<c2>>, meta |-> clock]
                  IN  IF t = TreeOf(objects, c2)
                      THEN /\ topHead' = c2
                           /\ UNCHANGED objects
                           /\ proc' = [proc EXCEPT ![p].pc = "applied"]
                      ELSE /\ CanStore(objects, rec)
                           /\ objects' = StoreCommit(objects, rec)
                           /\ topHead' = CommitId(objects, rec)
                           /\ proc' = [proc EXCEPT ![p].pc = "applied",
                                                   ![p].made = ~HasObject(objects, rec)]
    /\ UNCHANGED <<wt, xo, maxRetry, clock, notes, resVars, evVars, migVars, restVars>>

\* update_file after the checkout: read the file of config.git_dir, return
\* when it equals new_content; else write, `git add` and `git commit`
\* (check=True: a commit with nothing staged exits 1 and raises).
UpdateStep(p) ==
    /\ proc[p].pc = "checked"
    /\ proc[p].kind = "update"
    /\ LET bytes == TreeOf(objects, topHead)
           new == proc[p].new
       IN  IF ReadCurrent(bytes, proc[p].mode) = new
           THEN /\ proc' = [proc EXCEPT ![p].pc = "applied"]
                /\ UNCHANGED <<objects, topHead>>
           ELSE IF new = bytes
           THEN \* the bytes written are those of HEAD: nothing to commit
                /\ proc' = [proc EXCEPT ![p].pc = "raised"]
                /\ UNCHANGED <<objects, topHead>>
           ELSE   LET rec == [tree |-> new, parents |-> <<topHead>>, meta |-> clock]
                  IN  /\ CanStore(objects, rec)
                      /\ objects' = StoreCommit(objects, rec)
                      /\ topHead' = CommitId(objects, rec)
                      /\ proc' = [proc EXCEPT ![p].pc = "applied",
                                              ![p].made = ~HasObject(objects, rec)]
    /\ UNCHANGED <<wt, xo, maxRetry, clock, notes, resVars, evVars, migVars, restVars>>

\* return git.read_head_commit(config): `git rev-parse HEAD` in config.git_dir
ReadHead(p) ==
    /\ proc[p].pc = "applied"
    /\ proc' = [proc EXCEPT ![p].pc = "returned", ![p].result = topHead]
    /\ UNCHANGED <<objects, topHead, wt, xo, maxRetry, clock, notes, resVars, evVars, migVars, restVars>>

\* llm_constrained_mutation(config, backend, seeds, [commit]), first step:
\* _gather_info -> prepare_temp_worktrees adds a detached worktree of commit.
BeginWtMutate(p, concurrent) ==
    /\ MayBegin(p, concurrent)
    /\ \E c \in 1..Len(objects), new \in FileContents, auxfile \in BOOLEAN :
          /\ proc' = [proc EXCEPT ![p] =
                        [IdleProc EXCEPT !.pc = "start", !.kind = "wtmutate",
                                         !.c1 = c, !.new = new, !.mode = "text",
                                         !.auxfile = auxfile, !.via = "mutation",
                                         !.cwd = "worktree"]]
          /\ wt' = [wt EXCEPT ![p] = [on |-> TRUE, head |-> c,
                                      file |-> TreeOf(objects, c), aux |-> FALSE]]
    /\ UNCHANGED <<objects, topHead, xo, maxRetry, clock, notes, resVars, evVars, migVars, restVars>>

\* _gather_info, per commit: list the files, keep the eligible text files,
\* random.choice one (IndexError when none is eligible) and read it in the
\* worktree.  Which files the genome holds besides the configured one is
\* not part of the tree modelled here, so eligibility is an input.
GatherInfo(p) ==
    /\ proc[p].pc = "start"
    /\ proc[p].kind = "wtmutate"
    /\ \E eligible \in BOOLEAN :
          proc' = [proc EXCEPT ![p].pc =
                      IF eligible /\ wt[p].on THEN "gathered" ELSE "raised"]
    /\ UNCHANGED <<objects, topHead, wt, xo, maxRetry, clock, notes, resVars, evVars, migVars, restVars>>

\* update_file_in_worktree (return when the text read equals the new code,
\* else write and `git add`), then add_file_in_worktree unless the backend
\* answered filename "none".
WtEdit(p) ==
    /\ proc[p].pc = "gathered"
    /\ IF ~wt[p].on
       THEN /\ proc' = [proc EXCEPT ![p].pc = "raised"]
            /\ UNCHANGED wt
       ELSE /\ proc' = [proc EXCEPT ![p].pc = "edited"]
            /\ wt' = [wt EXCEPT
                        ![p].file = IF UniversalNewlines(wt[p].file) = proc[p].new
                                    THEN wt[p].file ELSE proc[p].new,
                        ![p].aux = proc[p].auxfile]
    /\ UNCHANGED <<objects, topHead, xo, maxRetry, clock, notes, resVars, evVars, migVars, restVars>>

\* has_staged_changes: `git diff --cached --name-only` prints something
has_staged_changes(objs, w) == w.file # TreeOf(objs, w.head) \/ w.aux

\* commit_changes_in_worktree (skipped when nothing is staged; `git commit`
\* tried up to three times, each failure a warning, and the function
\* returns after the third), then read_head_commit(config, worktree).
\* Whether `git commit` succeeds (a hook, a lock, a missing identity make
\* it fail) is an input.
WtCommit(p) ==
    /\ proc[p].pc = "edited"
    /\ IF ~wt[p].on
       THEN /\ proc' = [proc EXCEPT ![p].pc = "raised"]
            /\ UNCHANGED <<objects, wt>>
       ELSE IF ~has_staged_changes(objects, wt[p])
       THEN /\ proc' = [proc EXCEPT ![p].pc = "committed", ![p].result = wt[p].head]
            /\ UNCHANGED <<objects, wt>>
       ELSE   LET rec == [tree |-> wt[p].file, parents |-> <<wt[p].head>>, meta |-> clock]
              IN  \/ /\ CanStore(objects, rec)
                     /\ objects' = StoreCommit(objects, rec)
                     /\ wt' = [wt EXCEPT ![p].head = CommitId(objects, rec), ![p].aux = FALSE]
                     /\ proc' = [proc EXCEPT ![p].pc = "committed",
                                             ![p].result = CommitId(objects, rec),
                                             ![p].made = ~HasObject(objects, rec)]
                  \/ /\ proc' = [proc EXCEPT ![p].pc = "committed",
                                             ![p].result = wt[p].head,
                                             ![p].commit_failed = TRUE]
                     /\ UNCHANGED <<objects, wt>>
    /\ UNCHANGED <<topHead, xo, maxRetry, clock, notes, resVars, evVars, migVars, restVars>>

\* cleanup_temp_worktrees: rmtree of .phylox_evaluate and `git worktree
\* prune`: every temporary worktree goes, whichever call prepared it.
WtCleanup(p) ==
    /\ proc[p].pc = "committed"
    /\ wt' = [q \in Procs |-> NoWorktree]
    /\ proc' = [proc EXCEPT ![p].pc = "returned"]
    /\ UNCHANGED <<objects, topHead, xo, maxRetry, clock, notes, resVars, evVars, migVars, restVars>>

\* evogit_git_crossover(config, pop): retry = 0, then pop_size rounds
XoStart ==
    /\ xo.pc \in {"idle", "done"}
    /\ \A q \in Procs : Terminal(q)
    /\ \E pop \in [1..PopSize -> 1..Len(objects)] :
          xo' = [IdleXo EXCEPT !.pc = "sample", !.pop = pop]
    /\ UNCHANGED <<objects, topHead, wt, proc, maxRetry, clock, notes, resVars, evVars, migVars, restVars>>

\* idx1, idx2 = torch.randint(0, pop_size, (2,))
XoSample ==
    /\ xo.pc = "sample"
    /\ \E i1 \in 1..PopSize, i2 \in 1..PopSize :
          xo' = [xo EXCEPT !.pc = "guard", !.c1 = xo.pop[i1], !.c2 = xo.pop[i2]]
    /\ UNCHANGED <<objects, topHead, wt, proc, maxRetry, clock, notes, resVars, evVars, migVars, restVars>>

\* The guard of the while loop: the pair is not novel and retries are left.
XoMustResample ==
    /\ ~is_novel_merge(objects, xo.c1, xo.c2)
    /\ xo.retry < maxRetry

\* The body of the while loop: draw again, retry += 1 (retry is never reset
\* between the rounds of one batch).
XoResample ==
    /\ xo.pc = "guard"
    /\ XoMustResample
    /\ \E i1 \in 1..PopSize, i2 \in 1..PopSize :
          xo' = [xo EXCEPT !.c1 = xo.pop[i1], !.c2 = xo.pop[i2], !.retry = xo.retry + 1]
    /\ UNCHANGED <<objects, topHead, wt, proc, maxRetry, clock, notes, resVars, evVars, migVars, restVars>>

\* The loop is left: api.git_crossover(config, seed, commit1, commit2)
XoInvoke ==
    /\ xo.pc = "guard"
    /\ ~XoMustResample
    /\ \E use_merge \in BOOLEAN :
          proc' = [proc EXCEPT ![1] =
                      [IdleProc EXCEPT !.pc = "start",
                                       !.kind = IF use_merge THEN "merge" ELSE "rebase",
                                       !.c1 = xo.c1, !.c2 = xo.c2, !.via = "guarded"]]
    /\ xo' = [xo EXCEPT !.pc = "wait"]
    /\ UNCHANGED <<objects, topHead, wt, maxRetry, clock, notes, resVars, evVars, migVars, restVars>>

\* offspring.append(hex_to_array(new_commit)); the next round or the end
XoCollect ==
    /\ xo.pc = "wait"
    /\ proc[1].pc = "returned"
    /\ xo' = IF xo.n + 1 = PopSize
             THEN [IdleXo EXCEPT !.pc = "done"]
             ELSE [xo EXCEPT !.n = xo.n + 1, !.pc = "sample", !.c1 = 0, !.c2 = 0]
    /\ proc' = [proc EXCEPT ![1] = IdleProc]
    /\ UNCHANGED <<objects, topHead, wt, maxRetry, clock, notes, resVars, evVars, migVars, restVars>>

\* `git notes add -F - [-f] commit` fails when a note exists and -f is absent
add_note_fails(ns, commit, overwrite) == ns[commit] # NoNote /\ ~overwrite

\* `git notes add -f` on a commit that has a note: git overwrites the note
\* ("Overwriting existing notes for object") and the notes ref moves to a
\* new commit, whether or not the text differs.
add_note_overwrites(ns, commit, overwrite) == ns[commit] # NoNote /\ overwrite

\* add_note: the notes namespace after the call
add_note(ns, commit, note, overwrite) ==
    IF add_note_fails(ns, commit, overwrite) THEN ns ELSE [ns EXCEPT ![commit] = note]

\* read_note: `git notes show commit`, None when git exits non-zero
read_note(ns, commit) == ns[commit]

\* update_notes(config, [commit], [result]) after an evaluation of commit:
\* add_note of json.dumps(result) with overwrite=True
OpsUpdateNotes ==
    /\ \A q \in Procs : Terminal(q)
    /\ \E c \in 1..Len(objects), r \in FitnessRecords :
          /\ read_note(notes, c) # json_dumps(r)
          /\ notes' = add_note(notes, c, json_dumps(r), TRUE)
    /\ UNCHANGED <<opVars, resVars, evVars, migVars, restVars>>

\* Time passes between two commits: later commits carry another stamp.
Tick ==
    /\ clock < MaxStamp
    /\ clock' = clock + 1
    /\ UNCHANGED <<objects, topHead, wt, proc, xo, maxRetry, notes, resVars, evVars, migVars, restVars>>

OpsInit ==
    /\ RestIdle
    /\ objects = <<SeedCommit>>
    /\ topHead = 1
    /\ wt = [p \in Procs |-> NoWorktree]
    /\ proc = [p \in Procs |-> IdleProc]
    /\ xo = IdleXo
    /\ maxRetry \in 0..MaxRetry
    /\ clock = 0
    /\ notes = NoNotes
    /\ ResIdle
    /\ EvIdle
    /\ MigIdle

\* The operators as the drivers of evox_extension.py run them: one call at
\* a time, all by the one thread of the evolutionary loop.
OpsNext ==
    \/ BeginCrossover(1, FALSE)
    \/ BeginUpdate(1, FALSE)
    \/ BeginWtMutate(1, FALSE)
    \/ Checkout(1)
    \/ MergeStep(1)
    \/ RebaseStep(1)
    \/ UpdateStep(1)
    \/ ReadHead(1)
    \/ GatherInfo(1)
    \/ WtEdit(1)
    \/ WtCommit(1)
    \/ WtCleanup(1)

SpecOps == OpsInit /\ [][OpsNext]_vars

\* A generation of evogit_git_crossover batches, with whole-file mutations
\* in between that give the population its ancestry.
CrossoverNext ==
    \/ XoStart
    \/ XoSample
    \/ XoResample
    \/ XoInvoke
    \/ XoCollect
    \/ BeginUpdate(1, FALSE)
    \/ Checkout(1)
    \/ MergeStep(1)
    \/ RebaseStep(1)
    \/ UpdateStep(1)
    \/ ReadHead(1)

SpecCrossover == OpsInit /\ [][CrossoverNext]_vars

\* Two operator calls on distinct individuals overlapping in time, as the
\* worker pool of the scheduling model would run them: call 1 a crossover,
\* call 2 a whole-file mutation.
OpsNextConcurrent ==
    \/ BeginCrossover(1, TRUE)
    \/ BeginUpdate(2, TRUE)
    \/ \E p \in Procs : Checkout(p)
    \/ MergeStep(1)
    \/ RebaseStep(1)
    \/ UpdateStep(2)
    \/ \E p \in Procs : ReadHead(p)

SpecOpsConcurrent == OpsInit /\ [][OpsNextConcurrent]_vars

\* lint_code_base(config, [commit]) without worktrees of the caller, first
\* step: prepare_temp_worktrees adds a detached worktree of commit.
LintPrepare(p) ==
    /\ MayBegin(p, TRUE)
    /\ \E c \in 1..Len(objects) :
          /\ proc' = [proc EXCEPT ![p] =
                        [IdleProc EXCEPT !.pc = "start", !.kind = "lint", !.c1 = c,
                                         !.cwd = "worktree"]]
          /\ wt' = [wt EXCEPT ![p] = [on |-> TRUE, head |-> c,
                                      file |-> TreeOf(objects, c), aux |-> FALSE]]
    /\ UNCHANGED <<objects, topHead, xo, maxRetry, clock, notes, resVars, evVars, migVars, restVars>>

\* lint_code_base, the middle: get_linter_feedback starts the linter with
\* cwd=worktree (Popen raises when the directory is gone), its output is
\* read and written with add_note (overwrite is left at its default).
LintFeedback(p) ==
    /\ proc[p].pc = "start"
    /\ proc[p].kind = "lint"
    /\ IF ~wt[p].on
       THEN /\ proc' = [proc EXCEPT ![p].pc = "raised"]
            /\ UNCHANGED notes
       ELSE /\ proc' = [proc EXCEPT ![p].pc = "linted"]
            /\ notes' = add_note(notes, proc[p].c1, LintText, FALSE)
    /\ UNCHANGED <<objects, topHead, wt, xo, maxRetry, clock, resVars, evVars, migVars, restVars>>

\* lint_code_base, the end: cleanup_temp_worktrees(config)
LintCleanup(p) ==
    /\ proc[p].pc = "linted"
    /\ wt' = [q \in Procs |-> NoWorktree]
    /\ proc' = [proc EXCEPT ![p].pc = "returned"]
    /\ UNCHANGED <<objects, topHead, xo, maxRetry, clock, notes, resVars, evVars, migVars, restVars>>

\* Two passes that use temporary worktrees of one repository overlapping
\* in time: call 1 a constrained mutation, call 2 a lint pass.
WorktreesNext ==
    \/ BeginWtMutate(1, TRUE)
    \/ GatherInfo(1)
    \/ WtEdit(1)
    \/ WtCommit(1)
    \/ WtCleanup(1)
    \/ LintPrepare(2)
    \/ LintFeedback(2)
    \/ LintCleanup(2)

SpecWorktrees == OpsInit /\ [][WorktreesNext]_vars

UsesWorktree(p) ==
    /\ proc[p].kind \in {"wtmutate", "lint"}
    /\ proc[p].pc \in {"start", "gathered", "edited", "committed", "linted"}

\* C29: when two operations that use worktrees overlap in time, releasing
\* the worktrees of one never removes a worktree the other still uses:
\* each worktree exists from its creation until its own operation
\* releases it.
C29_WorktreeLivesUntilReleased ==
    \A p \in Procs : UsesWorktree(p) => wt[p].on

\* The store with its notes: whole-file mutations at different times and
\* the notes evaluations attach to commits.
StoreNext ==
    \/ BeginUpdate(1, FALSE)
    \/ Checkout(1)
    \/ UpdateStep(1)
    \/ ReadHead(1)
    \/ OpsUpdateNotes
    \/ Tick

SpecStore == OpsInit /\ [][StoreNext]_vars

\* The offspring operator call p returned comes from p's own inputs: it is
\* one of them, or a commit on top of them with content from them.
OffspringOfOwnInputs(p) ==
    LET r == proc[p].result
        c1 == proc[p].c1
        c2 == proc[p].c2
        own == IF proc[p].kind = "update" THEN {c1} ELSE {c1, c2}
        trees == IF proc[p].kind = "update"
                 THEN {proc[p].new}
                 ELSE {TreeOf(objects, c1), TreeOf(objects, c2)}
    IN  \/ r \in own
        \/ /\ Len(objects[r].parents) > 0
           /\ \A k \in 1..Len(objects[r].parents) : objects[r].parents[k] \in own
           /\ TreeOf(objects, r) \in trees

\* C2: every crossover and every checkout-edit-commit mutation works in a
\* worktree of its own and never in the shared top-level directory, so when
\* two operators run concurrently on distinct individuals each returns an
\* offspring derived only from its own inputs.
C2_IsolatedOperators ==
    \A p \in Procs :
        proc[p].pc = "returned" /\ proc[p].kind \in {"merge", "rebase", "update"}
            => OffspringOfOwnInputs(p)

\* C3: each pair (A, B) on which the batch driver invokes Crossover is
\* novel: A is not an ancestor of B and B is not an ancestor of A (so A
\* differs from B), whatever the population, the draws and max_merge_retry.
C3_InvokedPairsAreNovel ==
    xo.pc = "wait" =>
        /\ xo.c1 # xo.c2
        /\ xo.c1 \notin AncestorsOf(objects, xo.c2)
        /\ xo.c2 \notin AncestorsOf(objects, xo.c1)

\* C7: a commit of content equal to the genome's current content creates
\* no new commit and hands the genome itself back to the caller, for the
\* top-level update and for the worktree update followed by commit.
C7_SameContentReturnsGenome ==
    \A p \in Procs :
        ( /\ proc[p].c1 # 0
          /\ proc[p].new = TreeOf(objects, proc[p].c1)
          /\ \/ proc[p].kind = "update" /\ proc[p].pc \in {"returned", "raised"}
             \/ proc[p].kind = "wtmutate" /\ ~proc[p].auxfile /\ proc[p].pc = "returned" )
        => ( /\ proc[p].pc = "returned"
             /\ proc[p].result = proc[p].c1
             /\ ~proc[p].made )

\* C21: when a commit fails after its changes were staged, the operator
\* surfaces a fatal error to the caller and returns no genome: it never
\* returns the unchanged parent, or any other genome, as the offspring.
C21_FailedCommitReturnsNoGenome ==
    \A p \in Procs :
        proc[p].commit_failed => proc[p].pc \notin {"committed", "returned"}

SampleStore ==
    << SeedCommit,
       [tree |-> <<"b", "LF">>, parents |-> <<1>>, meta |-> 0],
       [tree |-> <<"a", "CR", "LF">>, parents |-> <<1>>, meta |-> 0] >>

\* What subprocess.run of the evaluation command does: the command ends
\* (stdout a finished-status JSON, or anything else), it passes the
\* timeout, or it cannot be started (OSError: no such file, no permission).
CommandOutcomes == {"finished", "other", "timeout", "oserror"}

Range(f) == {f[i] : i \in DOMAIN f}

\* The orders list(set(pop)) may give the distinct genomes of pop in.
ListsOfSet(S) ==
    {q \in [1..Cardinality(S) -> S] : \A i, j \in 1..Cardinality(S) : q[i] = q[j] => i = j}

\* A batch that hands every slot of pop to the pool, repeated genomes too
unique_pop_all(pop) == {pop}

\* unique_pop = list(set(pop)): the distinct genomes of pop, in some order
unique_pop(pop) == ListsOfSet(Range(pop))

PendingOutput ==
    [state |-> "pending", exc |-> "none", seen |-> NoNote, ran |-> FALSE,
     stdout |-> "", timeout |-> FALSE]

\* An evaluation that always runs the command
UsesCache_never(reeval, note) == FALSE

\* evaluate_code: `if not config.reevaluate` and `if note is not None`
UsesCache(reeval, note) == ~reeval /\ note # NoNote

\* evaluate_code(config, commit, worktree), with note the note of commit and
\* outcome what running the command does.  The result: the dict returned
\* (stdout, timeout) or the exception raised (exc), whether the command was
\* run (ran), and the note that was in place at the call (seen).
evaluate_code(reeval, note, outcome) ==
    IF UsesCache(reeval, note)
    THEN IF json_loads_raises(note)
         THEN [PendingOutput EXCEPT !.state = "raised", !.exc = "JSONDecodeError",
                                    !.seen = note]
         ELSE [PendingOutput EXCEPT !.state = "done", !.seen = note,
                                    !.stdout = json_loads(note).stdout,
                                    !.timeout = json_loads(note).timeout]
    ELSE IF outcome = "oserror"
         THEN [PendingOutput EXCEPT !.state = "raised", !.exc = "OSError",
                                    !.seen = note, !.ran = TRUE]
         ELSE IF outcome = "timeout"
         THEN [PendingOutput EXCEPT !.state = "done", !.seen = note, !.ran = TRUE,
                                    !.stdout = "", !.timeout = TRUE]
         ELSE [PendingOutput EXCEPT !.state = "done", !.seen = note, !.ran = TRUE,
                                    !.stdout = outcome, !.timeout = FALSE]

\* What the evaluation command may print, by what json.loads and the
\* subscripts of decode_result make of it: "finished" a JSON object with
\* status "finished", fitness and time_cost; "other" an object with another
\* status; "" and "not_json" text json.loads rejects; "json_list" JSON that
\* is no object; "no_status", "no_fitness" and "no_time_cost" objects that
\* lack that key (the latter two with status "finished").
StdoutTexts ==
    {"finished", "other", "", "not_json", "json_list",
     "no_status", "no_fitness", "no_time_cost"}

\* json.loads(output["stdout"]): whether it raises json.JSONDecodeError,
\* whether the value is a dict, the keys of the dict and its status.
stdout_loads(text) ==
    [raises |-> text \in {"", "not_json"},
     object |-> text \in {"finished", "other", "no_status", "no_fitness", "no_time_cost"},
     keys   |-> CASE text = "finished"     -> {"status", "fitness", "time_cost"}
                  [] text = "other"        -> {"status"}
                  [] text = "no_status"    -> {"fitness", "time_cost"}
                  [] text = "no_fitness"   -> {"status", "time_cost"}
                  [] text = "no_time_cost" -> {"status", "fitness"}
                  [] OTHER                 -> {},
     status |-> IF text \in {"finished", "no_fitness", "no_time_cost"}
                THEN "finished" ELSE "error"]

\* The result of decode_result: both values, or an exception leaving it.
Decoded(performance_cost, time_cost) ==
    [performance_cost |-> performance_cost, time_cost |-> time_cost, raised |-> FALSE]

DecodeRaised == [performance_cost |-> "", time_cost |-> "", raised |-> TRUE]

\* A decode_result without the `except Exception` clause: the TypeError of
\* subscripting a non-dict and the KeyError of a missing key leave it.
decode_result_no_catchall(output, illegal_value) ==
    IF output.timeout THEN Decoded(illegal_value, illegal_value)
    ELSE LET stdout == stdout_loads(output.stdout) IN
         IF stdout.raises THEN Decoded(illegal_value, illegal_value)
         ELSE IF ~stdout.object \/ "status" \notin stdout.keys THEN DecodeRaised
         ELSE IF stdout.status = "finished"
              THEN IF {"fitness", "time_cost"} \subseteq stdout.keys
                   THEN Decoded("fitness", "time_cost")
                   ELSE DecodeRaised
              ELSE Decoded(illegal_value, illegal_value)

\* decode_result(output, illegal_value): `if output["timeout"] is True`,
\* else json.loads of the stdout under try; `except json.JSONDecodeError`
\* and `except Exception` both assign illegal_value to both values.
\* "fitness" and "time_cost" stand for stdout["fitness"], stdout["time_cost"].
decode_result(output, illegal_value) ==
    IF output.timeout THEN Decoded(illegal_value, illegal_value)
    ELSE LET stdout == stdout_loads(output.stdout) IN
         IF stdout.raises
         THEN Decoded(illegal_value, illegal_value)      \* except JSONDecodeError
         ELSE IF ~stdout.object \/ "status" \notin stdout.keys
         THEN Decoded(illegal_value, illegal_value)      \* TypeError, KeyError
         ELSE IF stdout.status = "finished"
              THEN IF {"fitness", "time_cost"} \subseteq stdout.keys
                   THEN Decoded("fitness", "time_cost")
                   ELSE Decoded(illegal_value, illegal_value)   \* KeyError
              ELSE Decoded(illegal_value, illegal_value)

\* update_notes(config, commits, results): add_note of json.dumps(result)
\* with overwrite=True, commit by commit
RECURSIVE update_notes(_, _, _)
update_notes(ns, commits, results) ==
    IF commits = <<>> THEN ns
    ELSE update_notes(add_note(ns, Head(commits),
                               json_dumps([stdout |-> Head(results).stdout,
                                           timeout |-> Head(results).timeout]),
                               TRUE),
                      Tail(commits), Tail(results))

\* The commits whose existing note update_notes(config, commits, results)
\* overwrites: every add_note of it has overwrite=True.
update_notes_overwrites(ns, commits) ==
    {commits[i] : i \in {j \in DOMAIN commits : add_note_overwrites(ns, commits[j], TRUE)}}

EvQuiet == ev.pc \in {"idle", "returned", "raised"}

\* evaluate(): unique_pop = list(set(pop)); prepare_temp_worktrees adds a
\* worktree per genome; the calls of evaluate_code go to the pool.
EvalStart ==
    /\ EvQuiet
    /\ \E pop \in [1..PopSize -> 1..Len(objects)] :
         \E unique \in unique_pop(pop) :
            /\ Len(worktrees) + Len(unique) <= MaxWorktrees
            /\ ev' = [pc |-> "pool", pop |-> pop, unique |-> unique,
                      out |-> [i \in 1..Len(unique) |-> PendingOutput],
                      fitness |-> <<>>, overwrote |-> {}]
            /\ worktrees' = worktrees \o unique
    /\ UNCHANGED <<reevaluate, notes, opVars, resVars, migVars, restVars>>

\* One worker of the pool runs evaluate_code for one genome of the batch.
EvalCode ==
    /\ ev.pc = "pool"
    /\ \E i \in 1..Len(ev.unique), outcome \in CommandOutcomes :
          /\ ev.out[i].state = "pending"
          /\ ev' = [ev EXCEPT !.out[i] =
                       evaluate_code(reevaluate, read_note(notes, ev.unique[i]), outcome)]
    /\ UNCHANGED <<worktrees, reevaluate, notes, opVars, resVars, migVars, restVars>>

\* The rest of evaluate() once the pool is through: list(pool.map(...))
\* re-raises what a call raised; otherwise update_notes,
\* cleanup_temp_worktrees, decode_result per genome and the fitness of pop.
EvalFinish ==
    /\ ev.pc = "pool"
    /\ \A i \in 1..Len(ev.unique) : ev.out[i].state # "pending"
    /\ IF \E i \in 1..Len(ev.unique) : ev.out[i].state = "raised"
       THEN /\ ev' = [ev EXCEPT !.pc = "raised"]
            /\ UNCHANGED <<notes, worktrees>>
       ELSE /\ notes' = update_notes(notes, ev.unique, ev.out)
            /\ worktrees' = <<>>
            /\ ev' = [ev EXCEPT
                        !.pc = "returned",
                        !.overwrote = update_notes_overwrites(notes, ev.unique),
                        !.fitness =
                            [k \in 1..Len(ev.pop) |->
                                decode_result(
                                    ev.out[CHOOSE i \in 1..Len(ev.unique) :
                                               ev.unique[i] = ev.pop[k]],
                                    "illegal").performance_cost]]
    /\ UNCHANGED <<reevaluate, opVars, resVars, migVars, restVars>>

\* lint_code_base(config, commits): worktrees prepared, the linters run in
\* them under a shell, each output written with add_note (a failure of
\* add_note is swallowed), then cleanup_temp_worktrees.
RECURSIVE lint_notes(_, _, _)
lint_notes(ns, commits, overwrite) ==
    IF commits = <<>> THEN ns
    ELSE lint_notes(add_note(ns, Head(commits), LintText, overwrite),
                    Tail(commits), overwrite)

LintCodeBase ==
    /\ EvQuiet
    /\ \E commits \in [1..PopSize -> 1..Len(objects)], overwrite \in BOOLEAN :
          /\ notes' = lint_notes(notes, commits, overwrite)
          /\ notes' # notes
    /\ worktrees' = <<>>
    /\ UNCHANGED <<ev, reevaluate, opVars, resVars, migVars, restVars>>

EvalInit ==
    /\ RestIdle
    /\ objects = SampleStore
    /\ topHead = 1
    /\ wt = [p \in Procs |-> NoWorktree]
    /\ proc = [p \in Procs |-> IdleProc]
    /\ xo = IdleXo
    /\ maxRetry = 0
    /\ clock = 0
    /\ notes = NoNotes
    /\ ev = IdleEv
    /\ worktrees = <<>>
    /\ reevaluate \in BOOLEAN
    /\ ResIdle
    /\ MigIdle

EvalNext ==
    \/ EvalStart
    \/ EvalCode
    \/ EvalFinish
    \/ LintCodeBase

SpecEval == EvalInit /\ [][EvalNext]_vars

\* C1: with reevaluate off, evaluating a genome that has a FitnessRecord
\* note returns the stored record and does not run the evaluation command
\* for that genome, after any sequence of evaluations and lintings that
\* left the note in place.
C1_CachedRecordIsReused ==
    \A i \in 1..Len(ev.out) :
        ( /\ ev.out[i].state # "pending"
          /\ ~reevaluate
          /\ ev.out[i].seen \in {json_dumps(r) : r \in FitnessRecords} )
        => ( /\ ev.out[i].state = "done"
             /\ json_dumps([stdout |-> ev.out[i].stdout, timeout |-> ev.out[i].timeout])
                    = ev.out[i].seen
             /\ ~ev.out[i].ran )

\* A batch returned in which one genome was served from its note, written
\* by an earlier batch, and another one was run.
C1_Witness ==
    /\ ev.pc = "returned"
    /\ ~reevaluate
    /\ \E i, j \in 1..Len(ev.out) :
          /\ ev.out[i].seen \in {json_dumps(r) : r \in FitnessRecords}
          /\ ~ev.out[i].ran
          /\ ev.out[j].ran

\* C4: a failure while processing one individual never aborts the batch:
\* the batch completes, returns an entry for every other individual, and
\* no exception of the failing individual leaves the batch.
C4_FailureStaysInTheIndividual ==
    ev.pc \in {"returned", "raised"} =>
        /\ ev.pc = "returned"
        /\ \A k \in 1..Len(ev.pop) :
              (\E i \in 1..Len(ev.unique) :
                    ev.unique[i] = ev.pop[k] /\ ev.out[i].state = "done")
                  => k \in DOMAIN ev.fitness

\* The entry evaluate() computes for genome c of the batch: decode_result
\* of the output evaluate_code gave for c, with the illegal value 1e8.
commit_to_fitness(c) ==
    decode_result(ev.out[CHOOSE i \in 1..Len(ev.unique) : ev.unique[i] = c],
                  "illegal").performance_cost

\* C14: in a batch whose population repeats genomes the evaluation is
\* performed at most once per distinct genome; the fitness returned has one
\* entry per population slot, in slot order, and two slots holding the same
\* genome get the same entry.
C14_OncePerGenomeSharedEntry ==
    /\ \A g \in Range(ev.pop) :
          Cardinality({i \in 1..Len(ev.unique) :
                          ev.unique[i] = g /\ ev.out[i].state # "pending"}) <= 1
    /\ ev.pc = "returned" =>
          /\ DOMAIN ev.fitness = DOMAIN ev.pop
          /\ \A k \in DOMAIN ev.pop : ev.fitness[k] = commit_to_fitness(ev.pop[k])
          /\ \A k, l \in DOMAIN ev.pop :
                ev.pop[k] = ev.pop[l] => ev.fitness[k] = ev.fitness[l]

\* A batch returned whose slots 1 and 2 hold the same genome, for which the
\* evaluation command was run.
C14_Witness ==
    /\ ev.pc = "returned"
    /\ ev.pop[1] = ev.pop[2]
    /\ \E i \in 1..Len(ev.unique) : ev.unique[i] = ev.pop[1] /\ ev.out[i].ran
    /\ Len(ev.fitness) = Len(ev.pop)

\* C15: with reevaluate off, batch evaluation writes a note only for the
\* genomes that had none; a note that exists for a genome, whatever wrote
\* it, is never replaced.  An existing note is overwritten only when
\* reevaluate is on.
C15_ExistingNoteKeptUnlessReevaluate ==
    (ev.pc = "returned" /\ ~reevaluate) => ev.overwrote = {}

\* C5: every worktree an operation created is reclaimed by the time the
\* operation ends, whether it returns or fails with an error.
C5_WorktreesReclaimed ==
    EvQuiet => worktrees = <<>>

(***************************************************************************)
(* DECODING A RESULT                                                       *)
(*                                                                         *)
(* decode_result as a function of its arguments: a result dict with the    *)
(* fields stdout, stderr and timeout, and the illegal value of the caller  *)
(* (evaluate passes 1e8, the migration helper passes numpy.inf).           *)
(***************************************************************************)
ResultDicts == [stdout : StdoutTexts, stderr : {"", "trace"}, timeout : BOOLEAN]

IllegalValues == {"1e8", "inf"}

DecInit ==
    /\ PipelineIdle
    /\ WindowIdle
    /\ PromptIdle
    /\ RebaseIdle
    /\ CandidatesIdle
    /\ SolverIdle
    /\ RandomIdle
    /\ MsgIdle
    /\ \E output \in ResultDicts, illegal_value \in IllegalValues :
          dc = [IdleDc EXCEPT !.pc = "called", !.output = output,
                              !.illegal_value = illegal_value]
    /\ VecIdle
    /\ TagIdle
    /\ BranchIdle
    /\ BootIdle
    /\ PruneIdle
    /\ SyncIdle
    /\ ResIdle
    /\ OpsIdle
    /\ notes = NoNotes
    /\ EvIdle
    /\ MigIdle

Decode ==
    /\ dc.pc = "called"
    /\ LET r == decode_result(dc.output, dc.illegal_value) IN
          dc' = [dc EXCEPT !.pc = IF r.raised THEN "raised" ELSE "decoded",
                           !.performance_cost = r.performance_cost,
                           !.time_cost = r.time_cost,
                           !.raised = r.raised]
    /\ UNCHANGED notDc

DecNext == Decode

SpecDecode == DecInit /\ [][DecNext]_vars

\* The record carries a finished evaluation: its stdout is a JSON object
\* whose status is "finished" and which has both fields, and no timeout.
CarriesFitness(output) ==
    /\ ~output.timeout
    /\ ~stdout_loads(output.stdout).raises
    /\ stdout_loads(output.stdout).object
    /\ {"status", "fitness", "time_cost"} \subseteq stdout_loads(output.stdout).keys
    /\ stdout_loads(output.stdout).status = "finished"

\* C13: decoding a FitnessRecord raises nothing; it yields the fitness and
\* the time cost of the stdout exactly when timeout is false and the stdout
\* parses as a JSON object with status "finished" and both fields, and the
\* illegal value for both otherwise.
C13_DecodeIsTotalAndClassifies ==
    dc.pc # "called" =>
        /\ dc.pc \in {"idle", "decoded"}
        /\ ~dc.raised
        /\ dc.pc = "decoded" =>
              IF CarriesFitness(dc.output)
              THEN dc.performance_cost = "fitness" /\ dc.time_cost = "time_cost"
              ELSE /\ dc.performance_cost = dc.illegal_value
                   /\ dc.time_cost = dc.illegal_value

\* A record of a command that printed JSON which is no object was decoded.
C13_Witness ==
    /\ dc.pc = "decoded"
    /\ ~dc.output.timeout
    /\ dc.output.stdout = "json_list"
    /\ dc.performance_cost = dc.illegal_value

(***************************************************************************)
(* HUMAN TAGS                                                              *)
(*                                                                         *)
(* A human hands a genome to the run by tagging a commit with a name that  *)
(* starts with "human": `git tag name commit` makes a lightweight tag, a   *)
(* ref to the commit; `git tag -a name commit` makes an annotated tag, a   *)
(* ref to a tag object that points to the commit.                          *)
(***************************************************************************)
TagKinds == {"light", "annotated"}

\* What `git rev-parse` prints: the hash of a commit, or of a tag object
\* (its own hash, not the hash of the commit `of` it points to).
CommitHash(c) == [type |-> "commit", of |-> c]
TagObjectHash(c) == [type |-> "tag", of |-> c]

Min(a, b) == IF a <= b THEN a ELSE b

\* list_tags: the names `git tag` prints, here by their index in TagNames
list_tags(tags) ==
    LET RECURSIVE upto(_)
        upto(n) == IF n = 0 THEN <<>>
                   ELSE IF tags[n].kind # "none" THEN Append(upto(n - 1), n)
                        ELSE upto(n - 1)
    IN upto(Len(TagNames))

\* tag.startswith(prefix)
startswith(tag, prefix) == Head(tag) = prefix

\* [tag for tag in all_tags if tag.startswith("human")]
human_tags(all_tags) ==
    LET RECURSIVE pick(_)
        pick(q) == IF q = <<>> THEN <<>>
                   ELSE IF startswith(TagNames[Head(q)], "human")
                        THEN <<Head(q)>> \o pick(Tail(q))
                        ELSE pick(Tail(q))
    IN pick(all_tags)

\* tags[:migrate_count], migrate_count >= 0
take(q, n) == SubSeq(q, 1, Min(n, Len(q)))

\* get_commit_by_tag: `git rev-parse tags/<tag>`, which does not peel an
\* annotated tag
get_commit_by_tag(tags, t) ==
    IF tags[t].kind = "annotated" THEN TagObjectHash(tags[t].commit)
    ELSE CommitHash(tags[t].commit)

\* delete_tags: `git tag -d` of the names
delete_tags(tags, q) ==
    [i \in DOMAIN tags |-> IF i \in Range(q) THEN NoTag ELSE tags[i]]

\* A human tags a commit.
TagCreate ==
    /\ \E i \in DOMAIN TagNames, kind \in TagKinds, c \in Genomes :
          /\ tg.tags[i] = NoTag
          /\ tg' = [tg EXCEPT !.pc = "tagged", !.tags[i] = [kind |-> kind, commit |-> c]]
    /\ UNCHANGED notTg

\* migrate_from_human_tags(config, migrate_count): the tags left, the tags
\* taken and the list returned
migrate_from_human_tags(all, migrate_count) ==
    LET tags == take(human_tags(list_tags(all)), migrate_count) IN
        [pc |-> "returned",
         tags |-> delete_tags(all, tags),
         limit |-> migrate_count,
         taken |-> tags,
         commits |-> [k \in DOMAIN tags |-> get_commit_by_tag(all, tags[k])]]

\* A call of migrate_from_human_tags with some limit.
MigrateFromHumanTags ==
    /\ \E migrate_count \in 0..MaxLimit :
          tg' = migrate_from_human_tags(tg.tags, migrate_count)
    /\ UNCHANGED notTg

\* The calls with a positive limit.
MigratePositive ==
    /\ \E migrate_count \in 1..MaxLimit :
          tg' = migrate_from_human_tags(tg.tags, migrate_count)
    /\ UNCHANGED notTg

TagInit ==
    /\ PipelineIdle
    /\ WindowIdle
    /\ PromptIdle
    /\ RebaseIdle
    /\ CandidatesIdle
    /\ SolverIdle
    /\ RandomIdle
    /\ MsgIdle
    /\ TagIdle
    /\ BranchIdle
    /\ BootIdle
    /\ PruneIdle
    /\ SyncIdle
    /\ VecIdle
    /\ DecIdle
    /\ ResIdle
    /\ OpsIdle
    /\ notes = NoNotes
    /\ EvIdle
    /\ MigIdle

TagNext ==
    \/ TagCreate
    \/ MigrateFromHumanTags

\* MigrateHelper.migrate_from_human calls with a limit of 1 in every
\* generation that human_every divides: calls with a positive limit keep
\* coming as long as the run lasts.
SpecTags == TagInit /\ [][TagNext]_vars /\ WF_vars(MigratePositive)

\* What a call must have done: at most limit genomes, each the commit of a
\* tag that was there with the human prefix; the tags taken are deleted
\* and every other tag is as it was.
TagsCallContract ==
    tg'.pc = "returned" =>
        /\ Len(tg'.commits) <= tg'.limit
        /\ Len(tg'.taken) = Len(tg'.commits)
        /\ \A k \in DOMAIN tg'.commits :
              /\ startswith(TagNames[tg'.taken[k]], "human")
              /\ tg.tags[tg'.taken[k]] # NoTag
              /\ tg'.commits[k] = CommitHash(tg.tags[tg'.taken[k]].commit)
        /\ \A i \in DOMAIN TagNames :
              tg'.tags[i] = IF i \in Range(tg'.taken) THEN NoTag ELSE tg.tags[i]

\* C16: a call with a limit returns at most limit genomes, each resolved
\* from a tag with the human prefix, and deletes exactly the tags it
\* consumed: tags beyond the limit and tags without the prefix stay.  So
\* over the calls a tag is returned at most once, and every human tag is
\* eventually consumed when the limit is positive.
C16_HumanTagsConsumedOnce ==
    /\ [][TagsCallContract]_vars
    /\ \A i \in DOMAIN TagNames :
          startswith(TagNames[i], "human") =>
              ((tg.tags[i] # NoTag) ~> (tg.tags[i] = NoTag))

(***************************************************************************)
(* PUBLISHING A GENERATION                                                 *)
(*                                                                         *)
(* The repository of host 1.  Its own branches are host1-individual-i; the *)
(* branches of the other hosts are the remote-tracking branches a fetch    *)
(* brings in.  update_branches starts one `git branch -f` per individual   *)
(* and waits for all of them.                                              *)
(***************************************************************************)
LocalHost == 1

\* A publish that names every branch after index 0
branch_name_first(hostname, index) == <<hostname, 0>>

\* f"{hostname}-individual-{index}"
branch_name(hostname, index) == <<hostname, index>>

BrQuiet == br.pc \in {"idle", "returned"}

\* update_branches(config, pop) up to the end of the Popen loop of
\* branches_track_commits: one process per individual is running.
PublishStart ==
    /\ BrQuiet
    /\ \E pop \in [1..PopSize -> Genomes] :
          br' = [br EXCEPT !.pc = "running", !.pop = pop, !.left = DOMAIN pop,
                           !.before = br.refs]
    /\ UNCHANGED notBr

\* One of the processes does its `git branch -f <name> <commit>`.
BranchForce ==
    /\ br.pc = "running"
    /\ \E k \in br.left :
          br' = [br EXCEPT !.left = br.left \ {k},
                           !.refs[branch_name(LocalHost, k - 1)] = br.pop[k]]
    /\ UNCHANGED notBr

\* proc.wait() of every process, each with return code 0
PublishReturn ==
    /\ br.pc = "running"
    /\ br.left = {}
    /\ br' = [br EXCEPT !.pc = "returned"]
    /\ UNCHANGED notBr

\* A fetch from the remote moves a remote-tracking branch of another host.
FetchTracking ==
    /\ BrQuiet
    /\ \E h \in Hosts \ {LocalHost}, i \in 0..(PopSize - 1), c \in Genomes :
          /\ br.refs[<<h, i>>] # c
          /\ br' = [br EXCEPT !.pc = "idle", !.refs[<<h, i>>] = c]
    /\ UNCHANGED notBr

BranchInit ==
    /\ PipelineIdle
    /\ WindowIdle
    /\ PromptIdle
    /\ RebaseIdle
    /\ CandidatesIdle
    /\ SolverIdle
    /\ RandomIdle
    /\ MsgIdle
    /\ BranchIdle
    /\ BootIdle
    /\ PruneIdle
    /\ SyncIdle
    /\ TagIdle
    /\ VecIdle
    /\ DecIdle
    /\ ResIdle
    /\ OpsIdle
    /\ notes = NoNotes
    /\ EvIdle
    /\ MigIdle

BranchNext ==
    \/ PublishStart
    \/ BranchForce
    \/ PublishReturn
    \/ FetchTracking

SpecBranches == BranchInit /\ [][BranchNext]_vars

\* C17: after the publish of a generation returns, the branch
\* <host>-individual-<i> references genomes[i] for every index i, whatever
\* it referenced before and in whatever order the parallel force-moves
\* completed; the branches of the other hosts are as they were.
C17_BranchesTrackGeneration ==
    br.pc = "returned" =>
        /\ \A k \in DOMAIN br.pop : br.refs[<<LocalHost, k - 1>>] = br.pop[k]
        /\ \A b \in BranchNames : b[1] # LocalHost => br.refs[b] = br.before[b]

\* A publish returned that moved two branches which referenced other
\* genomes before, to two different genomes, next to a branch of another
\* host.
C17_Witness ==
    /\ br.pc = "returned"
    /\ br.pop[1] # br.pop[2]
    /\ \A k \in 1..2 : br.before[<<LocalHost, k - 1>>] \notin {0, br.pop[k]}
    /\ \E b \in BranchNames : b[1] # LocalHost /\ br.refs[b] # 0

(***************************************************************************)
(* THE INITIAL POPULATION                                                  *)
(*                                                                         *)
(* get_initial_branches as a function of the repository it is called on:  *)
(* the branches `git branch` and `git branch -r` list with their commits,  *)
(* the commit of HEAD and of main, and config.clean_start.  A branch name  *)
(* is its characters in pieces, so that `"main" in branch` is a test for   *)
(* the piece "main": domain1-individual-0 is a branch of host "domain1".   *)
(***************************************************************************)
MainBranch == <<"main">>
LocalBranchNames ==
    {<<"host1", "-individual-0">>, <<"do", "main", "1", "-individual-0">>, MainBranch}
RemoteBranchNames == {<<"origin/", "host2", "-individual-0">>, <<"origin/", "main">>}

SeqsUpTo(S, n) == UNION {[1..k -> S] : k \in 0..n}

\* is_normal_branch of list_branches: none of "detached", "master", "main",
\* "HEAD" occurs in the name
is_normal_branch(branch) ==
    ~\E i \in DOMAIN branch : branch[i] \in {"detached", "master", "main", "HEAD"}

\* list_branches(config, list_remote, ea_only=True) on the branches listed
list_branches(listed) ==
    LET RECURSIVE keep(_)
        keep(q) == IF q = <<>> THEN <<>>
                   ELSE IF is_normal_branch(Head(q).name)
                        THEN <<Head(q)>> \o keep(Tail(q))
                        ELSE keep(Tail(q))
    IN keep(listed)

\* [git.get_commit_by_branch(config, branch) for branch in branches]
commits_of(branches) == [k \in DOMAIN branches |-> branches[k].commit]

\* `while len(pop) < pop_size: pop.append(head)`
fill_with_head(pop, head, pop_size) ==
    pop \o [k \in 1..(pop_size - Len(pop)) |-> head]

\* get_initial_branches(config, pop_size)
get_initial_branches(clean_start, local, remotes, head, main, pop_size) ==
    IF clean_start
    THEN [k \in 1..pop_size |-> main]
    ELSE LET pop == commits_of(take(list_branches(local), pop_size))
             remote_pop ==
                 IF Len(pop) < pop_size
                 THEN commits_of(take(list_branches(remotes), pop_size - Len(pop)))
                 ELSE <<>>
         IN fill_with_head(pop \o remote_pop, head, pop_size)

BootInit ==
    /\ PipelineIdle
    /\ WindowIdle
    /\ PromptIdle
    /\ RebaseIdle
    /\ CandidatesIdle
    /\ SolverIdle
    /\ RandomIdle
    /\ MsgIdle
    /\ \E clean_start \in BOOLEAN,
          local \in SeqsUpTo([name : LocalBranchNames, commit : Genomes], MaxBranches),
          remotes \in SeqsUpTo([name : RemoteBranchNames, commit : Genomes], MaxBranches),
          head \in Genomes, main \in Genomes, pop_size \in 0..MaxPop :
          bs = [IdleBs EXCEPT !.pc = "called", !.clean_start = clean_start,
                              !.local = local, !.remote = remotes, !.head = head,
                              !.main = main, !.pop_size = pop_size]
    /\ PruneIdle
    /\ SyncIdle
    /\ BranchIdle
    /\ TagIdle
    /\ VecIdle
    /\ DecIdle
    /\ ResIdle
    /\ OpsIdle
    /\ notes = NoNotes
    /\ EvIdle
    /\ MigIdle

Bootstrap ==
    /\ bs.pc = "called"
    /\ bs' = [bs EXCEPT !.pc = "returned",
                        !.pop = get_initial_branches(bs.clean_start, bs.local, bs.remote,
                                                     bs.head, bs.main, bs.pop_size)]
    /\ UNCHANGED notBs

BootNext == Bootstrap

SpecBoot == BootInit /\ [][BootNext]_vars

\* The commits of the branches listed, the main branch aside.
BranchGenomes(listed) ==
    LET RECURSIVE keep(_)
        keep(q) == IF q = <<>> THEN <<>>
                   ELSE IF Head(q).name[Len(Head(q).name)] = "main"
                        THEN keep(Tail(q))
                        ELSE <<Head(q).commit>> \o keep(Tail(q))
    IN keep(listed)

\* C18: the initial population has exactly pop_size genomes, filled in
\* priority order: first the genomes of the local branches, then, for the
\* slots still empty, genomes of remote branches, then, for the slots still
\* empty, copies of the current head.
C18_BootstrapPriorityOrder ==
    bs.pc = "returned" =>
        LET locals == BranchGenomes(bs.local)
            remotes == BranchGenomes(bs.remote)
        IN /\ Len(bs.pop) = bs.pop_size
           /\ \A k \in DOMAIN bs.pop :
                 bs.pop[k] = IF k <= Len(locals) THEN locals[k]
                             ELSE IF k <= Len(locals) + Len(remotes)
                                  THEN remotes[k - Len(locals)]
                                  ELSE bs.head

(***************************************************************************)
(* PRUNING                                                                 *)
(*                                                                         *)
(* A repository with three commits.  Branches and tags are refs to         *)
(* commits; a note is an entry of the tree of refs/notes/commits under the *)
(* name of the commit it annotates, which does not make that commit        *)
(* reachable from the notes ref.  `git gc` removes the objects that no ref *)
(* reaches and that are past gc.pruneExpire and in no reflog.              *)
(***************************************************************************)
GcCommits == {1, 2, 3}

\* The commits reachable from a set of heads along parent links.
RECURSIVE ReachableFrom(_, _)
ReachableFrom(parent, heads) ==
    LET next == heads \cup ({parent[c] : c \in heads} \ {0})
    IN IF next = heads THEN heads ELSE ReachableFrom(parent, next)

\* A gc that removes every expired object, referenced or not
git_gc_expired(parent, objs, heads, expired) == objs \ expired

\* `git gc`: the objects left
git_gc(parent, objs, heads, expired) ==
    objs \ (expired \ ReachableFrom(parent, heads))

\* `git notes prune`: the notes left, those of objects that exist
git_notes_prune(notedCommits, objs) == notedCommits \cap objs

GcQuiet == gc.pc \in {"ready", "pruned"}

\* api.update_branches: the branches of the host now track the population.
GcPublish ==
    /\ GcQuiet
    /\ \E pop \in (SUBSET gc.objects) \ {{}} :
          /\ Cardinality(pop) <= PopSize
          /\ pop # gc.branches
          /\ gc' = [gc EXCEPT !.pc = "ready", !.before = IdleGc.before, !.branches = pop]
    /\ UNCHANGED notGc

\* A human tags a commit, or migrate_from_human_tags deletes a tag.
GcTag ==
    /\ GcQuiet
    /\ \E c \in gc.objects :
          gc' = [gc EXCEPT !.pc = "ready", !.before = IdleGc.before,
                           !.tags = IF c \in gc.tags THEN gc.tags \ {c}
                                    ELSE gc.tags \cup {c}]
    /\ UNCHANGED notGc

\* update_notes after an evaluation: the commit has a note.
GcAddNote ==
    /\ GcQuiet
    /\ \E c \in gc.objects \ gc.notes :
          gc' = [gc EXCEPT !.pc = "ready", !.before = IdleGc.before, !.notes = gc.notes \cup {c}]
    /\ UNCHANGED notGc

\* Time passes: an object gets past gc.pruneExpire and out of the reflogs.
GcExpire ==
    /\ GcQuiet
    /\ \E c \in gc.objects \ gc.expired :
          gc' = [gc EXCEPT !.pc = "ready", !.before = IdleGc.before, !.expired = gc.expired \cup {c}]
    /\ UNCHANGED notGc

\* prune(config): gc.log removed, `git gc`, then `git notes prune`
Prune ==
    /\ GcQuiet
    /\ LET left == git_gc(gc.parent, gc.objects, gc.branches \cup gc.tags, gc.expired) IN
          gc' = [gc EXCEPT !.pc = "pruned",
                           !.objects = left,
                           !.notes = git_notes_prune(gc.notes, left),
                           !.before = [objects |-> gc.objects, branches |-> gc.branches,
                                       tags |-> gc.tags, notes |-> gc.notes]]
    /\ UNCHANGED notGc

PruneInit ==
    /\ PipelineIdle
    /\ WindowIdle
    /\ PromptIdle
    /\ RebaseIdle
    /\ CandidatesIdle
    /\ SolverIdle
    /\ RandomIdle
    /\ MsgIdle
    /\ \E p \in {1, 2} :
          gc = [IdleGc EXCEPT !.pc = "ready", !.parent = <<0, 1, p>>,
                              !.objects = GcCommits, !.branches = {1}]
    /\ SyncIdle
    /\ BootIdle
    /\ BranchIdle
    /\ TagIdle
    /\ VecIdle
    /\ DecIdle
    /\ ResIdle
    /\ OpsIdle
    /\ notes = NoNotes
    /\ EvIdle
    /\ MigIdle

PruneNext ==
    \/ GcPublish
    \/ GcTag
    \/ GcAddNote
    \/ GcExpire
    \/ Prune

SpecPrune == PruneInit /\ [][PruneNext]_vars

\* The commits some head of the set has among itself and its ancestors.
HasAmongAncestors(heads) ==
    {c \in GcCommits :
        \E h \in heads : c = h \/ c = gc.parent[h]
                              \/ (gc.parent[h] # 0 /\ c = gc.parent[gc.parent[h]])}

Running(kind) == [kind |-> kind, state |-> "running"]

\* api.fetch_remote: fetch_from_remote and fetch_notes_from_remote, both
\* started, the two handles returned
fetch_remote == <<Running("fetch"), Running("fetch_notes")>>

\* api.push_local_branches: push_notes_to_remote and push_to_remote, both
\* started, the two handles returned
push_local_branches == <<Running("push_notes"), Running("push")>>

\* `config.x_every > 0 and generation % config.x_every == 0`
Due(every, generation) == every > 0 /\ generation % every = 0

\* A git_update that waits for no handle
procs_waited_none(handlers) == {}

\* `for proc in handlers: proc.wait()`: the handles waited for
procs_waited(handlers) == DOMAIN handlers

\* The workflow calls git_update(config, generation).
GitUpdateCall ==
    /\ sy.pc = "idle"
    /\ sy.generation < MaxGeneration
    /\ sy' = [sy EXCEPT !.pc = "fetch", !.handlers = <<>>, !.waited = {}]
    /\ UNCHANGED notSy

GitUpdateFetch ==
    /\ sy.pc = "fetch"
    /\ sy' = [sy EXCEPT !.pc = "push",
                        !.handlers = IF Due(sy.fetch_every, sy.generation)
                                     THEN sy.handlers \o fetch_remote
                                     ELSE sy.handlers]
    /\ UNCHANGED notSy

GitUpdatePush ==
    /\ sy.pc = "push"
    /\ sy' = [sy EXCEPT !.pc = "wait",
                        !.handlers = IF Due(sy.push_every, sy.generation)
                                     THEN sy.handlers \o push_local_branches
                                     ELSE sy.handlers]
    /\ UNCHANGED notSy

\* A git process started by a Popen comes to its end.
ProcExit ==
    /\ \E i \in DOMAIN sy.handlers :
          /\ sy.handlers[i].state = "running"
          /\ sy' = [sy EXCEPT !.handlers[i].state = "exited"]
    /\ UNCHANGED notSy

\* proc.wait() returns for the next handle of the loop, once its process
\* has ended.
GitUpdateWait ==
    /\ sy.pc = "wait"
    /\ \E i \in procs_waited(sy.handlers) \ sy.waited :
          /\ \A j \in procs_waited(sy.handlers) \ sy.waited : i <= j
          /\ sy.handlers[i].state = "exited"
          /\ sy' = [sy EXCEPT !.waited = sy.waited \cup {i}]
    /\ UNCHANGED notSy

GitUpdateReturn ==
    /\ sy.pc = "wait"
    /\ sy.waited = procs_waited(sy.handlers)
    /\ sy' = [sy EXCEPT !.pc = "returned"]
    /\ UNCHANGED notSy

\* The operations after the step: migration, the next generation and its
\* publish.  outstanding tells whether a process of the step still ran.
LaterOperation ==
    /\ sy.pc = "returned"
    /\ sy' = [sy EXCEPT !.pc = "idle", !.generation = sy.generation + 1,
                        !.outstanding =
                            \E i \in DOMAIN sy.handlers : sy.handlers[i].state = "running"]
    /\ UNCHANGED notSy

SyncInit ==
    /\ PipelineIdle
    /\ WindowIdle
    /\ PromptIdle
    /\ RebaseIdle
    /\ CandidatesIdle
    /\ SolverIdle
    /\ RandomIdle
    /\ MsgIdle
    /\ \E fetch_every \in 0..MaxEvery, push_every \in 0..MaxEvery :
          sy = [IdleSy EXCEPT !.fetch_every = fetch_every, !.push_every = push_every]
    /\ PruneIdle
    /\ BootIdle
    /\ BranchIdle
    /\ TagIdle
    /\ VecIdle
    /\ DecIdle
    /\ ResIdle
    /\ OpsIdle
    /\ notes = NoNotes
    /\ EvIdle
    /\ MigIdle

SyncNext ==
    \/ GitUpdateCall
    \/ GitUpdateFetch
    \/ GitUpdatePush
    \/ ProcExit
    \/ GitUpdateWait
    \/ GitUpdateReturn
    \/ LaterOperation

SpecSync == SyncInit /\ [][SyncNext]_vars

\* C20: the pushes and fetches return their handles without waiting, and
\* every handle started in the synchronisation step of a generation has
\* completed before the step returns: no later operation runs while one of
\* them is outstanding.
C20_HandlesDrainedBeforeReturn ==
    /\ sy.pc = "returned" =>
          \A i \in DOMAIN sy.handlers : sy.handlers[i].state = "exited"
    /\ ~sy.outstanding

\* A step returned that had started both fetches and both pushes, in a
\* generation after the first.
C20_Witness ==
    /\ sy.pc = "returned"
    /\ sy.generation > 0
    /\ Len(sy.handlers) = 4

(***************************************************************************)
(* COMMIT MESSAGES                                                         *)
(*                                                                         *)
(* A message is a sequence of runs, each one character repeated n times,   *)
(* so that messages around the limit of 256 characters are within reach.   *)
(* update_file and commit_changes_in_worktree both pass the message of     *)
(* the operator through git_commit_message_pattern.sub("", .) and [:256]   *)
(* and hand the result to `git commit -m`.                                 *)
(***************************************************************************)
MessageLimit == 256

\* Characters an operator's message may hold: a letter, a digit, a hyphen,
\* a space, and three the pattern does not allow (NUL, a line feed, a
\* letter outside ASCII).
MessageChars == {"a", "7", "-", " ", "NUL", "LF", "e-acute"}

RunLengths == {1, MessageLimit - 1, MessageLimit, MessageLimit + 1}

Runs == [ch : MessageChars, n : RunLengths]

\* The characters outside the class [^a-zA-Z0-9:_\-\./\\ ] of the pattern
PatternAllows ==
    {"a", "Z", "7", ":", "_", "-", ".", "/", "backslash", " "}

\* git_commit_message_pattern matches the character
git_commit_message_pattern(ch) == ch \notin PatternAllows

RECURSIVE MessageLength(_)
MessageLength(message) ==
    IF message = <<>> THEN 0 ELSE Head(message).n + MessageLength(Tail(message))

\* git_commit_message_pattern.sub("", commit_message)
RECURSIVE pattern_sub(_)
pattern_sub(message) ==
    IF message = <<>> THEN <<>>
    ELSE IF git_commit_message_pattern(Head(message).ch)
         THEN pattern_sub(Tail(message))
         ELSE <<Head(message)>> \o pattern_sub(Tail(message))

\* A commit call that hands the whole message over
truncate_none(message, limit) == message

\* commit_message[:limit]
RECURSIVE truncate(_, _)
truncate(message, limit) ==
    IF message = <<>> \/ limit = 0 THEN <<>>
    ELSE IF Head(message).n <= limit
         THEN <<Head(message)>> \o truncate(Tail(message), limit - Head(message).n)
         ELSE <<[ch |-> Head(message).ch, n |-> limit]>>

\* The two lines before `git commit -m commit_message`
sanitize(message) == truncate(pattern_sub(message), MessageLimit)

MsgInit ==
    /\ PipelineIdle
    /\ WindowIdle
    /\ PromptIdle
    /\ RebaseIdle
    /\ CandidatesIdle
    /\ SolverIdle
    /\ RandomIdle
    /\ \E message \in SeqsUpTo(Runs, MaxRuns) :
          ms = [IdleMs EXCEPT !.pc = "called", !.message = message]
    /\ VecIdle
    /\ DecIdle
    /\ TagIdle
    /\ BranchIdle
    /\ BootIdle
    /\ PruneIdle
    /\ SyncIdle
    /\ ResIdle
    /\ OpsIdle
    /\ notes = NoNotes
    /\ EvIdle
    /\ MigIdle

\* update_file(config, commit, new_content, commit_message) up to its
\* `git commit`
UpdateFileCommit ==
    /\ ms.pc = "called"
    /\ ms' = [ms EXCEPT !.pc = "committed", !.via = "update_file",
                        !.handed = sanitize(ms.message),
                        !.again = sanitize(sanitize(ms.message))]
    /\ UNCHANGED notMs

\* commit_changes_in_worktree(config, worktree, commit_message) up to its
\* `git commit`
WorktreeCommit ==
    /\ ms.pc = "called"
    /\ ms' = [ms EXCEPT !.pc = "committed", !.via = "commit_changes_in_worktree",
                        !.handed = sanitize(ms.message),
                        !.again = sanitize(sanitize(ms.message))]
    /\ UNCHANGED notMs

MsgNext ==
    \/ UpdateFileCommit
    \/ WorktreeCommit

SpecMessage == MsgInit /\ [][MsgNext]_vars

Seeds == 0 .. MaxSeed

GeneratorStates == 0 .. (RngPeriod - 1)

\* random.seed(seed)
random_seed(seed) == seed % RngPeriod

\* k draws from the module-level generator in the given state
RECURSIVE random_draws(_, _)
random_draws(state, k) ==
    IF k = 0 THEN [values |-> <<>>, state |-> state]
    ELSE LET rest == random_draws((state + 1) % RngPeriod, k - 1)
         IN  [values |-> <<state>> \o rest.values, state |-> rest.state]

RandomInit ==
    /\ PipelineIdle
    /\ WindowIdle
    /\ PromptIdle
    /\ RebaseIdle
    /\ CandidatesIdle
    /\ SolverIdle
    /\ \E state \in GeneratorStates : rn = [IdleRn EXCEPT !.state = state]
    /\ VecIdle
    /\ DecIdle
    /\ TagIdle
    /\ BranchIdle
    /\ BootIdle
    /\ PruneIdle
    /\ SyncIdle
    /\ MsgIdle
    /\ ResIdle
    /\ OpsIdle
    /\ notes = NoNotes
    /\ EvIdle
    /\ MigIdle

Logged(op, seed, input, values) ==
    Append(rn.log, [op |-> op, seed |-> seed, input |-> input, choices |-> values])

\* git_crossover(config, seed, commit1, commit2): random.seed(seed), one
\* draw for merge versus rebase, one per conflict block for accept-ours
RandomGitCrossover ==
    /\ Len(rn.log) < MaxRunsLogged
    /\ \E seed \in Seeds, count \in 0 .. MaxConflictBlocks :
          LET drawn == random_draws(random_seed(seed), 1 + count)
          IN  rn' = [state |-> drawn.state,
                     log |-> Logged("git_crossover", seed, count, drawn.values)]
    /\ UNCHANGED notRn

\* llm_constrained_mutation(config, llm_backend, seeds, commits) for one
\* genome: _gather_info draws the file (random.choice) and the window
\* (two random.randint) from the module-level generator as it stands; the
\* seeds go to llm_backend.query only
RandomConstrainedMutation ==
    /\ Len(rn.log) < MaxRunsLogged
    /\ \E seed \in Seeds, n_files \in 1 .. 2 :
          LET drawn == random_draws(rn.state, 3)
          IN  rn' = [state |-> drawn.state,
                     log |-> Logged("llm_constrained_mutation", seed, n_files, drawn.values)]
    /\ UNCHANGED notRn

\* vector_merge_driver2, started by git for a crossover called with seed:
\* rng = np.random.default_rng() takes fresh entropy from the system, and
\* factor = rng.uniform(0, 1, shape)
RandomDriver2 ==
    /\ Len(rn.log) < MaxRunsLogged
    /\ \E seed \in Seeds, conflicts \in 1 .. 2, factor \in 0 .. FactorDen :
          rn' = [rn EXCEPT !.log = Logged("vector_merge_driver2", seed, conflicts, <<factor>>)]
    /\ UNCHANGED notRn

RandomNext ==
    \/ RandomGitCrossover
    \/ RandomConstrainedMutation
    \/ RandomDriver2

SpecRandom == RandomInit /\ [][RandomNext]_vars

\* C23: every stochastic operator's random choices are a function of its
\* explicit seed and its inputs only: two runs of the same operator with
\* the same inputs and the same seed make the same choices, whatever ran
\* before.
C23_ChoicesFunctionOfSeed ==
    \A i, j \in DOMAIN rn.log :
        (/\ rn.log[i].op = rn.log[j].op
         /\ rn.log[i].seed = rn.log[j].seed
         /\ rn.log[i].input = rn.log[j].input)
        => rn.log[i].choices = rn.log[j].choices

(***************************************************************************)
(* BREADTH-FIRST SOLVER (packages/validation/src/solvers.py)               *)
(*                                                                         *)
(* A State's data is {"x": [pos]} or {"x": (pos,)}: a position held in a   *)
(* list or in a tuple.  State.__eq__ compares the data, State.__hash__     *)
(* hashes json.dumps(data, sort_keys=True), and json.dumps writes a tuple  *)
(* as it writes a list.  Every Action costs 1.                             *)
(***************************************************************************)
Positions == 0 .. MaxPos

StateData == [pos : Positions, kind : {"list", "tuple"}]

\* json.dumps(self.data, sort_keys=True): the text {"x": [pos]}
state_json_dumps(data) == <<"x", data.pos>>

\* State.__hash__, with hash() of a text taken to be one-to-one
state_hash(data) == state_json_dumps(data)

ActionNames == <<"inc", "dec", "freeze", "top">>

\* Action.preconditions
preconditions(name, data) ==
    CASE name = "inc" -> data.pos < MaxPos
      [] name = "dec" -> data.pos > 0
      [] name = "freeze" -> data.kind = "list"
      [] name = "top" -> data.pos < MaxPos

\* Action.effects
effects(name, data) ==
    CASE name = "inc" -> [data EXCEPT !.pos = @ + 1]
      [] name = "dec" -> [data EXCEPT !.pos = @ - 1]
      [] name = "freeze" -> [data EXCEPT !.kind = "tuple"]
      [] name = "top" -> [data EXCEPT !.pos = MaxPos]

\* The key under which the loop of solve keeps a state in visited
visited_key(data) == state_hash(data)

\* for action in actions: if action.preconditions(state): ...
\*     if hash(new_state) not in visited: queue.append(...)
RECURSIVE expand(_, _, _, _, _)
expand(queue, data, path, actions, visited) ==
    IF actions = <<>> THEN queue
    ELSE LET name == Head(actions)
             new_state == effects(name, data)
             appended ==
                 IF preconditions(name, data) /\ visited_key(new_state) \notin visited
                 THEN Append(queue, [state |-> new_state, path |-> Append(path, name)])
                 ELSE queue
         IN  expand(appended, data, path, Tail(actions), visited)

SolverInit ==
    /\ PipelineIdle
    /\ WindowIdle
    /\ PromptIdle
    /\ RebaseIdle
    /\ CandidatesIdle
    /\ \E initial \in StateData, goal \in SUBSET StateData,
          chosen \in SUBSET {"inc", "dec", "freeze", "top"},
          max_expansions \in 1 .. MaxExpansions :
          bf = [IdleBf EXCEPT !.pc = "loop", !.initial = initial, !.goal = goal,
                              !.actions = SelectSeq(ActionNames, LAMBDA name : name \in chosen),
                              !.max_expansions = max_expansions,
                              !.queue = <<[state |-> initial, path |-> <<>>]>>]
    /\ VecIdle
    /\ DecIdle
    /\ TagIdle
    /\ BranchIdle
    /\ BootIdle
    /\ PruneIdle
    /\ SyncIdle
    /\ MsgIdle
    /\ RandomIdle
    /\ ResIdle
    /\ OpsIdle
    /\ notes = NoNotes
    /\ EvIdle
    /\ MigIdle

Looping == bf.pc = "loop" /\ bf.queue # <<>> /\ bf.expansions < bf.max_expansions

\* state_hash in visited: continue
SolveSkip ==
    /\ Looping
    /\ visited_key(Head(bf.queue).state) \in bf.visited
    /\ bf' = [bf EXCEPT !.queue = Tail(@)]
    /\ UNCHANGED notBf

\* goal(state): return SearchResult(success=True, ...)
SolveGoal ==
    /\ Looping
    /\ visited_key(Head(bf.queue).state) \notin bf.visited
    /\ Head(bf.queue).state \in bf.goal
    /\ bf' = [bf EXCEPT !.pc = "returned", !.queue = Tail(@),
                        !.visited = @ \cup {visited_key(Head(bf.queue).state)},
                        !.expansions = @ + 1,
                        !.result = [success |-> TRUE, plan |-> Head(bf.queue).path,
                                    cost |-> Len(Head(bf.queue).path),
                                    states_explored |-> bf.expansions + 1,
                                    final_state |-> Head(bf.queue).state]]
    /\ UNCHANGED notBf

\* One pass of the loop over a state that is new and not a goal
SolveExpand ==
    /\ Looping
    /\ visited_key(Head(bf.queue).state) \notin bf.visited
    /\ Head(bf.queue).state \notin bf.goal
    /\ LET seen == bf.visited \cup {visited_key(Head(bf.queue).state)}
       IN  bf' = [bf EXCEPT !.visited = seen, !.expansions = @ + 1,
                            !.queue = expand(Tail(bf.queue), Head(bf.queue).state,
                                             Head(bf.queue).path, bf.actions, seen)]
    /\ UNCHANGED notBf

\* The loop ends: return SearchResult(success=False, ...)
SolveFail ==
    /\ bf.pc = "loop"
    /\ ~Looping
    /\ bf' = [bf EXCEPT !.pc = "returned",
                        !.result = [success |-> FALSE, plan |-> <<>>, cost |-> 0,
                                    states_explored |-> bf.expansions,
                                    final_state |-> bf.initial]]
    /\ UNCHANGED notBf

SolverNext ==
    \/ SolveSkip
    \/ SolveGoal
    \/ SolveExpand
    \/ SolveFail

SpecSolver == SolverInit /\ [][SolverNext]_vars

Successors(states, actions) ==
    {effects(actions[k], data) :
        <<k, data>> \in {kd \in (DOMAIN actions) \X states : preconditions(actions[kd[1]], kd[2])}}

RECURSIVE ReachedIn(_, _, _)
ReachedIn(states, actions, steps) ==
    IF steps = 0 THEN states
    ELSE ReachedIn(states \cup Successors(states, actions), actions, steps - 1)

Reachable == ReachedIn({bf.initial}, bf.actions, Cardinality(StateData))

ShortestPlan ==
    CHOOSE steps \in 0 .. Cardinality(StateData) :
        /\ ReachedIn({bf.initial}, bf.actions, steps) \cap bf.goal # {}
        /\ \A fewer \in 0 .. (steps - 1) :
              ReachedIn({bf.initial}, bf.actions, fewer) \cap bf.goal = {}

\* The plan applied step by step: the state it ends in, or "stuck"
RECURSIVE apply_plan(_, _)
apply_plan(data, plan) ==
    IF plan = <<>> THEN [ok |-> TRUE, state |-> data]
    ELSE IF preconditions(Head(plan), data)
         THEN apply_plan(effects(Head(plan), data), Tail(plan))
         ELSE [ok |-> FALSE, state |-> data]

GoalWithinReach ==
    /\ Reachable \cap bf.goal # {}
    /\ Cardinality(Reachable) <= bf.max_expansions

\* C24: with actions of one cost, whenever a goal state is reachable
\* within max_expansions, solve returns success with a plan of the least
\* number of actions among the plans reaching a goal, and the plan applied
\* from the initial state is applicable at every step and ends in the
\* returned final_state, which satisfies the goal.
C24_SolveFindsShortestPlan ==
    (bf.pc = "returned" /\ GoalWithinReach) =>
        /\ bf.result.success
        /\ Len(bf.result.plan) = ShortestPlan
        /\ apply_plan(bf.initial, bf.result.plan) = [ok |-> TRUE, state |-> bf.result.final_state]
        /\ bf.result.final_state \in bf.goal

(***************************************************************************)
(* CANDIDATES OF A MIGRATION FROM OTHER HOSTS                              *)
(*                                                                         *)
(* Names are texts, character by character: a host publishes individual   *)
(* i as the branch "<hostname>-individual-<i>", which `git branch -r`      *)
(* lists as "origin/<hostname>-individual-<i>".                            *)
(***************************************************************************)
\* config.hostname of the hosts that share the remote: "h1", "h10", "h2"
HostIds == {<<"h", "1">>, <<"h", "1", "0">>, <<"h", "2">>}

IndexDigits == <<"0", "1", "2", "3">>

PublishedBranches == [host : HostIds, index : 0 .. MaxIndex]

\* One line of `git branch -r` for a branch a host pushed
remote_branch_line(published) ==
    <<"o", "r", "i", "g", "i", "n", "/">> \o published.host
        \o <<"-", "i", "n", "d", "i", "v", "i", "d", "u", "a", "l", "-">>
        \o <<IndexDigits[published.index + 1]>>

\* Python's `sub in text` on two texts
in_text(sub, text) ==
    \E at \in 0 .. (Len(text) - Len(sub)) :
        \A k \in 1 .. Len(sub) : text[at + k] = sub[k]

\* is_normal_branch of list_branches, on a text
is_normal_branch_text(branch) ==
    ~ \/ in_text(<<"d", "e", "t", "a", "c", "h", "e", "d">>, branch)
      \/ in_text(<<"m", "a", "s", "t", "e", "r">>, branch)
      \/ in_text(<<"m", "a", "i", "n">>, branch)
      \/ in_text(<<"H", "E", "A", "D">>, branch)

\* git.list_branches(config, list_remote=True)
list_remote_branches(published) ==
    {<<"r", "e", "m", "o", "t", "e", "s", "/">> \o line :
        line \in {remote_branch_line(b) : b \in {c \in published :
                                                   is_normal_branch_text(remote_branch_line(c))}}}

\* [branch for branch in remote_branches if hostname not in branch]
not_from_current_host(remote_branches, hostname) ==
    {branch \in remote_branches : ~in_text(hostname, branch)}

CandidatesInit ==
    /\ PipelineIdle
    /\ WindowIdle
    /\ PromptIdle
    /\ RebaseIdle
    /\ \E hostname \in HostIds, published \in SUBSET PublishedBranches :
          cd = [IdleCd EXCEPT !.pc = "called", !.hostname = hostname,
                              !.published = published]
    /\ VecIdle
    /\ DecIdle
    /\ TagIdle
    /\ BranchIdle
    /\ BootIdle
    /\ PruneIdle
    /\ SyncIdle
    /\ MsgIdle
    /\ RandomIdle
    /\ SolverIdle
    /\ ResIdle
    /\ OpsIdle
    /\ notes = NoNotes
    /\ EvIdle
    /\ MigIdle

\* migrate_from_other_hosts up to random.shuffle(branches)
ListCandidates ==
    /\ cd.pc = "called"
    /\ cd' = [cd EXCEPT !.pc = "listed",
                        !.branches = not_from_current_host(
                                         list_remote_branches(cd.published), cd.hostname)]
    /\ UNCHANGED notCd

\* Another host pushes a branch, or the next call begins
CandidatesPush ==
    /\ cd.pc = "listed"
    /\ \E b \in PublishedBranches :
          cd' = [cd EXCEPT !.pc = "called", !.published = @ \cup {b}, !.branches = {}]
    /\ UNCHANGED notCd

CandidatesNext ==
    \/ ListCandidates
    \/ CandidatesPush

SpecCandidates == CandidatesInit /\ [][CandidatesNext]_vars

\* C25: the candidate set of a migration from other hosts is exactly the
\* remote branches that do not belong to the local host: none published
\* by the local host is a candidate and none published by another host is
\* left out, whatever the host ids (one may be a substring of another).
C25_CandidatesAreOtherHostsBranches ==
    cd.pc = "listed" =>
        cd.branches =
            {<<"r", "e", "m", "o", "t", "e", "s", "/">> \o remote_branch_line(b) :
                b \in {c \in cd.published : c.host # cd.hostname}}

(***************************************************************************)
(* THE LOOP OF A CROSSOVER BY REBASE                                       *)
(*                                                                         *)
(* rb.todo holds the commits of commit1 still to be replayed on commit2,   *)
(* the first being the one git stopped at.  A replayed commit conflicts    *)
(* in `file` blocks of config.filename and, when `other`, in another file  *)
(* of the repository.  While todo is not empty `git status` says           *)
(* "rebasing", so has_conflict is true.                                    *)
(***************************************************************************)
ReplayedCommits == [file : 0 .. MaxConflictBlocks, other : BOOLEAN]

applies_cleanly(commit) == commit.file = 0 /\ ~commit.other

\* git replays the commits of todo up to the first that conflicts
RECURSIVE replay(_)
replay(todo) ==
    IF todo = <<>> THEN <<>>
    ELSE IF applies_cleanly(Head(todo)) THEN replay(Tail(todo))
    ELSE todo

RECURSIVE clean_prefix(_)
clean_prefix(todo) ==
    IF todo = <<>> \/ ~applies_cleanly(Head(todo)) THEN 0
    ELSE 1 + clean_prefix(Tail(todo))

\* has_conflict(config): "rebasing" or "Unmerged paths" in `git status`
rebase_has_conflict(todo) == todo # <<>>

RebaseInit ==
    /\ PipelineIdle
    /\ WindowIdle
    /\ PromptIdle
    /\ \E todo \in SeqsUpTo(ReplayedCommits, MaxReplayed) :
          rb = [IdleRb EXCEPT !.pc = "checked", !.todo = todo]
    /\ VecIdle
    /\ DecIdle
    /\ TagIdle
    /\ BranchIdle
    /\ BootIdle
    /\ PruneIdle
    /\ SyncIdle
    /\ MsgIdle
    /\ RandomIdle
    /\ SolverIdle
    /\ CandidatesIdle
    /\ ResIdle
    /\ OpsIdle
    /\ notes = NoNotes
    /\ EvIdle
    /\ MigIdle

\* git.rebase_branches(config, commit2): the exit code is not looked at
RebaseBranches ==
    /\ rb.pc = "checked"
    /\ rb' = [rb EXCEPT !.pc = "loop", !.todo = replay(rb.todo),
                        !.made = clean_prefix(rb.todo)]
    /\ UNCHANGED notRb

\* One round of `while git.has_conflict(config)`: count_conflicts and
\* handle_conflict on config.filename, whose blocks are replaced and which
\* is added to the index, then continue_rebase, whose exit code is not
\* looked at.  `git rebase --continue` refuses while another file is still
\* unmerged; otherwise it commits the resolution, or drops the commit when
\* every block took the side of commit2 and nothing is left to commit, and
\* replays on.
RebaseRound ==
    /\ rb.pc = "loop"
    /\ rebase_has_conflict(rb.todo)
    /\ rb.idle_rounds < MaxIdleRounds
    /\ LET stopped == Head(rb.todo)
           count == stopped.file
       IN  \E sides \in [1 .. count -> BOOLEAN] :
              LET handled == [stopped EXCEPT !.file = 0]
                  empty == \A k \in 1 .. count : sides[k]
              IN  IF handled.other
                  THEN rb' = [rb EXCEPT !.todo = <<handled>> \o Tail(rb.todo),
                                        !.idle_rounds =
                                            IF handled = stopped THEN @ + 1 ELSE @]
                  ELSE rb' = [rb EXCEPT !.todo = replay(Tail(rb.todo)),
                                        !.made = @ + (IF empty THEN 0 ELSE 1)
                                                   + clean_prefix(Tail(rb.todo)),
                                        !.dropped = @ + (IF empty THEN 1 ELSE 0)]
    /\ UNCHANGED notRb

\* The loop ends and `assert not git.has_conflict(config)` passes
RebaseReturn ==
    /\ rb.pc = "loop"
    /\ ~rebase_has_conflict(rb.todo)
    /\ rb' = [rb EXCEPT !.pc = "returned"]
    /\ UNCHANGED notRb

RebaseNext ==
    \/ RebaseBranches
    \/ RebaseRound
    \/ RebaseReturn

SpecRebase == RebaseInit /\ [][RebaseNext]_vars

\* C26: a crossover by rebase terminates for every pair: the loop that
\* resolves and continues ends with no rebase in progress and never runs
\* a round that makes no progress, also when a step conflicts in a file
\* other than the configured one or when the sides chosen leave nothing
\* to commit.
C26_RebaseLoopMakesProgress ==
    rb.idle_rounds = 0

(***************************************************************************)
(* FAILURE CONTEXT OF A WHOLE-FILE MUTATION                                *)
(*                                                                         *)
(* The note of a genome is absent, or a FitnessRecord: timed out, or with  *)
(* a stdout that holds a stack trace, is not JSON, or is a JSON object     *)
(* without the key "stack_trace".  The locals stack_trace and timeout of   *)
(* _construct_prompt are unbound until the first assignment.               *)
(***************************************************************************)
StdoutKinds == {"trace_a", "trace_b", "not_json", "no_stack_trace_key"}

GenomeNotes == [present : BOOLEAN, timeout : BOOLEAN, stdout : StdoutKinds]

\* The notes that differ for the code: an absent note has no fields
ReadNotes ==
    {note \in GenomeNotes : ~note.present => (~note.timeout /\ note.stdout = "not_json")}

UnboundLocals == [stack_trace |-> "unbound", timeout |-> "unbound"]

\* The body of `for commit in commits` on one note: the locals after it,
\* and the exception it raises if any
prompt_locals(locals, note) ==
    IF ~note.present THEN [locals |-> locals, raised |-> "none"]
    ELSE IF note.timeout
    THEN [locals |-> [stack_trace |-> "None", timeout |-> "True"], raised |-> "none"]
    ELSE CASE note.stdout \in {"trace_a", "trace_b"} ->
                [locals |-> [stack_trace |-> note.stdout, timeout |-> "False"],
                 raised |-> "none"]
           [] note.stdout = "not_json" ->
                [locals |-> [stack_trace |-> "None", timeout |-> "False"],
                 raised |-> "none"]
           [] note.stdout = "no_stack_trace_key" ->
                [locals |-> [stack_trace |-> locals.stack_trace, timeout |-> "False"],
                 raised |-> "KeyError"]

\* The loop of _construct_prompt over the notes of the commits
RECURSIVE construct_code_infos(_, _, _)
construct_code_infos(batch, locals, code_infos) ==
    IF batch = <<>> THEN [code_infos |-> code_infos, raised |-> "none"]
    ELSE LET after == prompt_locals(locals, Head(batch))
         IN  IF after.raised # "none"
             THEN [code_infos |-> code_infos, raised |-> after.raised]
             ELSE IF after.locals.stack_trace = "unbound" \/ after.locals.timeout = "unbound"
             THEN [code_infos |-> code_infos, raised |-> "UnboundLocalError"]
             ELSE construct_code_infos(Tail(batch), after.locals,
                                       Append(code_infos, after.locals))

PromptInit ==
    /\ PipelineIdle
    /\ WindowIdle
    /\ \E batch \in SeqsUpTo(ReadNotes, MaxBatch) :
          pm = [IdlePm EXCEPT !.pc = "called", !.batch = batch]
    /\ VecIdle
    /\ DecIdle
    /\ TagIdle
    /\ BranchIdle
    /\ BootIdle
    /\ PruneIdle
    /\ SyncIdle
    /\ MsgIdle
    /\ RandomIdle
    /\ SolverIdle
    /\ CandidatesIdle
    /\ RebaseIdle
    /\ ResIdle
    /\ OpsIdle
    /\ notes = NoNotes
    /\ EvIdle
    /\ MigIdle

\* llm_mutation up to the return of _construct_prompt(config, commits, 1,
\* "mutation")
ConstructPrompt ==
    /\ pm.pc = "called"
    /\ LET built == construct_code_infos(pm.batch, UnboundLocals, <<>>)
       IN  pm' = [pm EXCEPT !.pc = IF built.raised = "none" THEN "returned" ELSE "raised",
                            !.code_infos = built.code_infos,
                            !.raised = built.raised]
    /\ UNCHANGED notPm

PromptNext ==
    \/ ConstructPrompt

SpecPrompt == PromptInit /\ [][PromptNext]_vars

\* The failure context a genome's own note gives: none without a note
OwnContext(note) ==
    IF ~note.present THEN [stack_trace |-> "None", timeout |-> "False"]
    ELSE IF note.timeout THEN [stack_trace |-> "None", timeout |-> "True"]
    ELSE [stack_trace |-> IF note.stdout \in {"trace_a", "trace_b"}
                          THEN note.stdout ELSE "None",
          timeout |-> "False"]

\* C27: in a batch whole-file mutation the failure context (stack trace,
\* timeout flag) sent for a genome comes from that genome's own
\* FitnessRecord only and is empty when it has none: nothing carries over
\* from another genome of the batch, and a genome without a record does
\* not make the construction of the prompts fail.
C27_FailureContextIsOwn ==
    /\ pm.raised # "UnboundLocalError"
    /\ pm.pc = "returned" =>
          \A k \in DOMAIN pm.batch : pm.code_infos[k] = OwnContext(pm.batch[k])

(***************************************************************************)
(* THE WINDOW OF A CONSTRAINED MUTATION                                    *)
(*                                                                         *)
(* The file is the list of its lines, line k (counted from 0) written as   *)
(* the number k; the markers <|EDIT|> and <|END_EDIT|> are -1 and -2.      *)
(***************************************************************************)
SectionMin == 64
SectionMax == 128
ContextBefore == 200
ContextStop == 202

EditMarker == -1
EndEditMarker == -2

\* len(code.split("\n")) of the files tried: short, around the section
\* lengths, and long enough for both contexts to be cut
FileLengths == {1, 2, 63, 64, 65, 128, 129, 330, 331, 540}

\* info["code"]: the lines from..to-1 of the file
FileLines(from, to) == [k \in 1 .. (to - from) |-> from + k - 1]

\* list.insert(index, item), 0 <= index <= len(list)
list_insert(list, index, item) ==
    SubSeq(list, 1, index) \o <<item>> \o SubSeq(list, index + 1, Len(list))

\* list[from:to], 0 <= from
list_slice(list, from, to) == SubSeq(list, from + 1, Min(to, Len(list)))

\* A slice that ends one line later
slice_stop_later(random_section_end, length) ==
    Min(random_section_end + ContextStop + 1, length)

\* min(info["random_section_end"] + 202, len(prompt_code))
slice_stop(random_section_end, length) ==
    Min(random_section_end + ContextStop, length)

\* max(0, info["random_section_start"] - 200)
slice_start(random_section_start) ==
    IF random_section_start - ContextBefore > 0
    THEN random_section_start - ContextBefore ELSE 0

\* The offsets tried out of random.randint(0, n_lines - random_length)
StartsTried(last) ==
    {s \in {0, 1, ContextBefore - 1, ContextBefore, ContextBefore + 1, last - 1, last} :
        0 <= s /\ s <= last}

WindowInit ==
    /\ PipelineIdle
    /\ \E n_lines \in FileLengths : cm = [IdleCm EXCEPT !.pc = "read", !.n_lines = n_lines]
    /\ VecIdle
    /\ DecIdle
    /\ TagIdle
    /\ BranchIdle
    /\ BootIdle
    /\ PruneIdle
    /\ SyncIdle
    /\ MsgIdle
    /\ RandomIdle
    /\ SolverIdle
    /\ CandidatesIdle
    /\ RebaseIdle
    /\ PromptIdle
    /\ ResIdle
    /\ OpsIdle
    /\ notes = NoNotes
    /\ EvIdle
    /\ MigIdle

\* _generate_random_section(n_lines)
GenerateRandomSection ==
    /\ cm.pc = "read"
    /\ \E drawn \in SectionMin .. SectionMax :
          LET random_length == IF drawn > cm.n_lines THEN cm.n_lines ELSE drawn
          IN  \E random_start \in StartsTried(cm.n_lines - random_length) :
                 cm' = [cm EXCEPT !.pc = "gathered",
                                  !.random_length = drawn,
                                  !.random_section_start = random_start,
                                  !.random_section_end = random_start + random_length]
    /\ UNCHANGED notCm

\* llm_constrained_mutation: the prompt code of one info
BuildPromptCode ==
    /\ cm.pc = "gathered"
    /\ LET code == FileLines(0, cm.n_lines)
           with_end == list_insert(code, cm.random_section_end, EndEditMarker)
           with_both == list_insert(with_end, cm.random_section_start, EditMarker)
       IN  cm' = [cm EXCEPT !.pc = "prompted",
                            !.prompt_code =
                                list_slice(with_both,
                                           slice_start(cm.random_section_start),
                                           slice_stop(cm.random_section_end, Len(with_both)))]
    /\ UNCHANGED notCm

WindowNext ==
    \/ GenerateRandomSection
    \/ BuildPromptCode

SpecWindow == WindowInit /\ [][WindowNext]_vars

PositionOf(item) == CHOOSE k \in DOMAIN cm.prompt_code : cm.prompt_code[k] = item

\* C28: for a file of n lines the window [start, end) has
\* 0 <= start <= end <= n and end - start = min(L, n) for an L in 64..128,
\* and the prompt holds, in file order, at most 200 lines of the file up
\* to the start marker, the start marker, the whole window, the end
\* marker, and at most 200 lines of the file after it.
C28_WindowAndContext ==
    /\ cm.pc \in {"gathered", "prompted"} =>
          /\ 0 <= cm.random_section_start
          /\ cm.random_section_start <= cm.random_section_end
          /\ cm.random_section_end <= cm.n_lines
          /\ cm.random_length \in 64 .. 128
          /\ cm.random_section_end - cm.random_section_start
                = Min(cm.random_length, cm.n_lines)
    /\ cm.pc = "prompted" =>
          /\ \E k \in DOMAIN cm.prompt_code : cm.prompt_code[k] = -1
          /\ \E k \in DOMAIN cm.prompt_code : cm.prompt_code[k] = -2
          /\ LET at_edit == PositionOf(-1)
                 at_end == PositionOf(-2)
                 before == SubSeq(cm.prompt_code, 1, at_edit - 1)
                 window == SubSeq(cm.prompt_code, at_edit + 1, at_end - 1)
                 after == SubSeq(cm.prompt_code, at_end + 1, Len(cm.prompt_code))
             IN  /\ at_edit < at_end
                 /\ Len(before) <= 200
                 /\ Len(before) <= cm.random_section_start
                 /\ before = FileLines(cm.random_section_start - Len(before),
                                       cm.random_section_start)
                 /\ window = FileLines(cm.random_section_start, cm.random_section_end)
                 /\ Len(after) <= 200
                 /\ cm.random_section_end + Len(after) <= cm.n_lines
                 /\ after = FileLines(cm.random_section_end,
                                      cm.random_section_end + Len(after))

\* A window in the middle of a long file: more than 200 lines lie before
\* it and more than 200 after it, and the prompt holds 200 of each.
C28_Witness ==
    /\ cm.pc = "prompted"
    /\ cm.random_section_start > 200
    /\ cm.n_lines - cm.random_section_end > 200
    /\ Len(cm.prompt_code) = 200 + 1 + (cm.random_section_end - cm.random_section_start) + 1 + 200

(***************************************************************************)
(* PIPELINE (packages/orchestration/src/pipeline.py)                       *)
(*                                                                         *)
(* Stages are named by their position.  A call of a handler returns a      *)
(* value, raises an exception with a message or with none (str(e) is ""),  *)
(* or runs into the timeout of asyncio.wait_for, which raises              *)
(* TimeoutError(), whose str is "" as well.  last_error holds "None" for   *)
(* Python's None.                                                          *)
(***************************************************************************)
PipelineStages == [skip_on_failure : BOOLEAN, retries : 0 .. MaxStageRetries]

HandlerOutcomes == {"returns", "raises_message", "raises_empty", "times_out"}

\* str(e) of the exception of an attempt
str_of_exception(outcome) == IF outcome = "raises_message" THEN "boom" ELSE ""

\* `if last_error:`: None and "" are both false
truthy(last_error) == last_error \notin {"None", ""}

PipelineInit ==
    /\ \E stages \in SeqsUpTo(PipelineStages, MaxStages) :
          pl = [IdlePl EXCEPT !.pc = IF stages = <<>> THEN "finish" ELSE "attempt",
                              !.stages = stages, !.at = 1,
                              !.attempts = [k \in DOMAIN stages |-> 0]]
    /\ VecIdle
    /\ DecIdle
    /\ TagIdle
    /\ BranchIdle
    /\ BootIdle
    /\ PruneIdle
    /\ SyncIdle
    /\ MsgIdle
    /\ RandomIdle
    /\ SolverIdle
    /\ CandidatesIdle
    /\ RebaseIdle
    /\ PromptIdle
    /\ WindowIdle
    /\ ResIdle
    /\ OpsIdle
    /\ notes = NoNotes
    /\ EvIdle
    /\ MigIdle

\* One pass of `for attempt in range(stage.retries + 1)`: the handler is
\* awaited; a value ends the loop, an exception is kept as str(e) and the
\* loop goes on while attempts are left.
StageAttempt ==
    /\ pl.pc = "attempt"
    /\ \E outcome \in HandlerOutcomes :
          LET stage == pl.stages[pl.at]
              last == pl.attempt >= stage.retries
          IN  pl' = [pl EXCEPT
                        !.invoked = @ \cup {pl.at},
                        !.attempts[pl.at] = @ + 1,
                        !.returned = IF outcome = "returns" THEN @ \cup {pl.at} ELSE @,
                        !.last_error = IF outcome = "returns" THEN "None"
                                       ELSE str_of_exception(outcome),
                        !.attempt = IF outcome = "returns" \/ last THEN 0 ELSE @ + 1,
                        !.pc = IF outcome = "returns" \/ last THEN "record" ELSE "attempt"]
    /\ UNCHANGED notPl

\* After the attempts: `if last_error: raise Exception(last_error)` and
\* the FAILED result of the handler of that exception (with the break
\* unless skip_on_failure), or else the COMPLETED result.
StageRecord ==
    /\ pl.pc = "record"
    /\ LET stage == pl.stages[pl.at]
           failed == truthy(pl.last_error)
           status == IF failed THEN "failed" ELSE "completed"
           stop == (failed /\ ~stage.skip_on_failure) \/ pl.at = Len(pl.stages)
       IN  pl' = [pl EXCEPT
                     !.results = Append(@, [name |-> pl.at, status |-> status]),
                     !.success = IF failed THEN FALSE ELSE @,
                     !.last_error = "None",
                     !.at = IF stop THEN @ ELSE @ + 1,
                     !.pc = IF stop THEN "finish" ELSE "attempt"]
    /\ UNCHANGED notPl

\* "Mark remaining stages as skipped", by name, and return
PipelineReturn ==
    /\ pl.pc = "finish"
    /\ LET completed_names == {pl.results[k].name : k \in DOMAIN pl.results}
           RECURSIVE skipped(_)
           skipped(k) ==
               IF k > Len(pl.stages) THEN <<>>
               ELSE IF k \in completed_names THEN skipped(k + 1)
               ELSE <<[name |-> k, status |-> "skipped"]>> \o skipped(k + 1)
       IN  pl' = [pl EXCEPT !.pc = "returned", !.results = @ \o skipped(1)]
    /\ UNCHANGED notPl

PipelineNext ==
    \/ StageAttempt
    \/ StageRecord
    \/ PipelineReturn

SpecPipeline == PipelineInit /\ [][PipelineNext]_vars

StatusOf(k) ==
    {pl.results[i].status : i \in {j \in DOMAIN pl.results : pl.results[j].name = k}}

\* C30: in a run of the pipeline a stage is recorded COMPLETED only if
\* one of its at most retries+1 attempts returned a value; a stage whose
\* handler raises or times out on every attempt, whatever the message of
\* the exception, is recorded FAILED and makes success false, and unless
\* skip_on_failure is set no later handler is invoked and the later
\* stages are recorded SKIPPED.
C30_StageStatuses ==
    pl.pc = "returned" =>
        \A k \in DOMAIN pl.stages :
            /\ pl.attempts[k] <= pl.stages[k].retries + 1
            /\ "completed" \in StatusOf(k) => k \in pl.returned
            /\ (k \in pl.invoked /\ k \notin pl.returned) =>
                  /\ StatusOf(k) = {"failed"}
                  /\ ~pl.success
                  /\ ~pl.stages[k].skip_on_failure =>
                        \A later \in DOMAIN pl.stages :
                            later > k => /\ later \notin pl.invoked
                                         /\ StatusOf(later) = {"skipped"}

(***************************************************************************)
(* HOSTS AND MIGRATION                                                     *)
(*                                                                         *)
(* Hosts share one remote.  A host pushes its notes ref to the namespace   *)
(* refs/notes/<hostname>-commits and its branches <hostname>-individual-i, *)
(* and fetches refs/notes/* and the branches of all hosts.  Genome 1 is    *)
(* the seed every host cloned; a commit id means the same commit on every  *)
(* host.  Host k is named host<k>.                                        *)
(***************************************************************************)
DefaultNotesRef == "refs/notes/commits"

\* push_notes_to_remote: f"refs/notes/{config.hostname}-commits", per host
HostNotesRef ==
    << "refs/notes/host1-commits", "refs/notes/host2-commits",
       "refs/notes/host3-commits", "refs/notes/host4-commits" >>

\* The host whose namespace a notes ref is
RefOwner(ref) == CHOOSE k \in Hosts : HostNotesRef[k] = ref

\* What `git notes get-ref` prints: the one ref notes commands work on.
git_notes_get_ref == <<DefaultNotesRef>>

\* list_remote_notes_namespaces: the refs printed by `git notes get-ref`
\* that are not refs/notes/commits
list_remote_notes_namespaces ==
    SelectSeq(git_notes_get_ref, LAMBDA ref : ref # DefaultNotesRef)

\* `git notes merge --strategy ours other`: a note of the local namespace
\* stays, a note only other has is taken over.
notes_merge_ours(local, other) ==
    [g \in Genomes |-> IF local[g] # NoNote THEN local[g] ELSE other[g]]

\* merge_notes: one `git notes merge` per listed namespace
RECURSIVE merge_notes(_, _, _)
merge_notes(local, fetched, namespaces) ==
    IF namespaces = <<>> THEN local
    ELSE merge_notes(notes_merge_ours(local, fetched[RefOwner(Head(namespaces))]),
                     fetched, Tail(namespaces))

\* `hostname not in branch`, negated, for a branch <hostname of k>-individual-i:
\* with the host names used here no name is part of another one.
hostname_in_branch(h, k) == h = k

\* A migration that takes a branch whether its commit has a note or not
MigrateTakes_any(note) == TRUE

\* migrate_from_other_hosts: `if note is not None`
MigrateTakes(note) == note # NoNote

\* The loop of migrate_from_other_hosts over the shuffled branches: a commit
\* with a note is appended and its note decoded (json.loads may raise), one
\* without is logged and skipped; the loop ends at migration_count commits.
RECURSIVE MigrateLoop(_, _, _, _)
MigrateLoop(order, ns, count, acc) ==
    IF order = <<>> THEN [commits |-> acc, raised |-> FALSE]
    ELSE LET note == read_note(ns, Head(order))
         IN  IF MigrateTakes(note)
             THEN IF json_loads_raises(note)
                  THEN [commits |-> Append(acc, Head(order)), raised |-> TRUE]
                  ELSE IF Len(acc) + 1 = count
                  THEN [commits |-> Append(acc, Head(order)), raised |-> FALSE]
                  ELSE MigrateLoop(Tail(order), ns, count, Append(acc, Head(order)))
             ELSE MigrateLoop(Tail(order), ns, count, acc)

\* The genomes host h holds: the seed, its own population, what it fetched.
Known(h, g) ==
    \/ g = 1
    \/ g \in hosts[h].branches
    \/ \E k \in Hosts : g \in hosts[h].tracking[k]

\* Host h evaluates a genome: the command runs, update_notes writes the
\* record to h's refs/notes/commits (overwrite=True).
HostEvaluate(h) ==
    /\ evalCount < MaxEvals
    /\ \E g \in Genomes, r \in {RecFinished, RecTimeout} :
          /\ Known(h, g)
          /\ hosts' = [hosts EXCEPT ![h].notes = add_note(@, g, json_dumps(r), TRUE)]
    /\ evalCount' = evalCount + 1
    /\ UNCHANGED <<remote, mig, notes, opVars, resVars, evVars, restVars>>

\* Host h lints a genome: lint_code_base writes the linter's output with
\* add_note, overwrite=False.
HostLint(h) ==
    /\ \E g \in Genomes :
          /\ Known(h, g)
          /\ ~add_note_fails(hosts[h].notes, g, FALSE)
          /\ hosts' = [hosts EXCEPT ![h].notes = add_note(@, g, LintText, FALSE)]
    /\ UNCHANGED <<remote, mig, evalCount, notes, opVars, resVars, evVars, restVars>>

\* update_branches: h's branches <hostname>-individual-i track its population.
HostPublish(h) ==
    /\ \E pop \in (SUBSET Genomes) \ {{}} :
          /\ pop # hosts[h].branches
          /\ hosts' = [hosts EXCEPT ![h].branches = pop]
    /\ UNCHANGED <<remote, mig, evalCount, notes, opVars, resVars, evVars, restVars>>

\* push_notes_to_remote: `git push origin
\* refs/notes/commits:refs/notes/<hostname>-commits`, when the process ends
PushNotes(h) ==
    /\ hosts[h].notes # EmptyNamespace
    /\ remote.notes[h] # hosts[h].notes
    /\ remote' = [remote EXCEPT !.notes[h] = hosts[h].notes]
    /\ UNCHANGED <<hosts, mig, evalCount, notes, opVars, resVars, evVars, restVars>>

\* push_to_remote: `git push -f --atomic origin <branches>`
PushBranches(h) ==
    /\ hosts[h].branches # {}
    /\ remote.branches[h] # hosts[h].branches
    /\ remote' = [remote EXCEPT !.branches[h] = hosts[h].branches]
    /\ UNCHANGED <<hosts, mig, evalCount, notes, opVars, resVars, evVars, restVars>>

\* fetch_notes_from_remote: `git fetch origin refs/notes/*:refs/notes/*`
FetchNotes(h) ==
    /\ hosts[h].fetched # remote.notes
    /\ hosts' = [hosts EXCEPT ![h].fetched = remote.notes]
    /\ UNCHANGED <<remote, mig, evalCount, notes, opVars, resVars, evVars, restVars>>

\* fetch_from_remote: `git fetch --prune origin`
FetchBranches(h) ==
    /\ hosts[h].tracking # remote.branches
    /\ hosts' = [hosts EXCEPT ![h].tracking = remote.branches]
    /\ UNCHANGED <<remote, mig, evalCount, notes, opVars, resVars, evVars, restVars>>

\* migrate_from_other_hosts(config, migration_count) on host h
Migrate(h) ==
    /\ \E count \in 1..NGenomes :
         LET merged == merge_notes(hosts[h].notes, hosts[h].fetched,
                                   list_remote_notes_namespaces)
             candidates == UNION {hosts[h].tracking[k] :
                                     k \in {j \in Hosts : ~hostname_in_branch(h, j)}}
         IN  \E order \in ListsOfSet(candidates) :
               LET res == MigrateLoop(order, merged, count, <<>>)
               IN  /\ hosts' = [hosts EXCEPT ![h].notes = merged]
                   /\ mig' = [pc |-> IF res.raised THEN "raised" ELSE "returned",
                              host |-> h,
                              before |-> hosts[h].notes,
                              fetched |-> hosts[h].fetched,
                              after |-> merged,
                              candidates |-> candidates,
                              commits |-> res.commits,
                              evalsBefore |-> evalCount,
                              evalsAfter |-> evalCount]
    /\ mig' # mig
    /\ UNCHANGED <<remote, evalCount, notes, opVars, resVars, evVars, restVars>>

MigInit ==
    /\ RestIdle
    /\ hosts = [h \in Hosts |-> FreshHost]
    /\ remote = EmptyRemote
    /\ mig = IdleMig
    /\ evalCount = 0
    /\ notes = NoNotes
    /\ OpsIdle
    /\ ResIdle
    /\ EvIdle

\* Host 1 is the host that publishes and pushes (A), host 2 the one that
\* fetches and migrates (B); both evaluate.
MigNext ==
    \/ \E h \in Hosts : HostEvaluate(h)
    \/ HostLint(2)
    \/ HostPublish(1)
    \/ PushNotes(1)
    \/ PushBranches(1)
    \/ FetchNotes(2)
    \/ FetchBranches(2)
    \/ Migrate(2)

SpecMigrate == MigInit /\ [][MigNext]_vars

\* C9: migrateFromHosts never runs the evaluation command and never writes
\* a new FitnessRecord; every genome it returns had a note readable in the
\* local namespace when it was selected; a remote branch whose genome has
\* no note is skipped, and no error comes of it.
C9_MigrationOnlyReadsNotes ==
    mig.pc # "idle" =>
        /\ mig.evalsAfter = mig.evalsBefore
        /\ \A g \in Genomes :
              \/ mig.after[g] = mig.before[g]
              \/ mig.before[g] = NoNote /\ \E k \in Hosts : mig.after[g] = mig.fetched[k][g]
        /\ \A i \in 1..Len(mig.commits) : read_note(mig.after, mig.commits[i]) # NoNote
        /\ mig.pc = "returned" =>
              \A i \in 1..Len(mig.commits) : mig.commits[i] \in mig.candidates
        /\ mig.pc = "raised" =>
              \E c \in mig.candidates :
                  /\ read_note(mig.after, c) # NoNote
                  /\ json_loads_raises(read_note(mig.after, c))

\* A migration returned a genome and passed over a branch without a note.
C9_Witness ==
    /\ mig.pc = "returned"
    /\ mig.commits # <<>>
    /\ \E c \in mig.candidates : read_note(mig.after, c) = NoNote

\* C10: after host A pushed its notes and host B fetched them and ran
\* migrateFromHosts, each remote namespace B fetched is merged into B's
\* local namespace with the ours policy: for a genome with a note in a
\* fetched namespace, B reads its own prior note if it had one and the
\* remote note otherwise.
C10_FetchedNotesAreMerged ==
    mig.pc = "returned" =>
        \A k \in Hosts \ {mig.host} : \A g \in Genomes :
            mig.fetched[k][g] # NoNote =>
                read_note(mig.after, g) =
                    IF mig.before[g] # NoNote THEN mig.before[g] ELSE mig.fetched[k][g]

(***************************************************************************)
(* NUMERIC MERGE DRIVERS                                                   *)
(*                                                                         *)
(* scripts/vector_merge_driver1.py and vector_merge_driver2.py, which git  *)
(* runs as the merge driver of a vector genome (config.merge_driver) on    *)
(* the ancestor's, the first and the second parent's file.  Values are     *)
(* integers; a factor drawn by rng.uniform(0, 1) is k / FactorDen with     *)
(* 0 <= k < FactorDen, and a child value is kept multiplied by FactorDen.  *)
(***************************************************************************)
Coords == 1..VecLen
VecValues == (0 - MaxAbs)..MaxAbs
Vectors == [Coords -> VecValues]
Factors == [Coords -> 0..(FactorDen - 1)]

\* vector_merge_driver1: child_vec = ancestor_vec + factor1 * delta1 +
\* factor2 * delta2, one coordinate of it
vector_merge_driver1(a, p1, p2, k1, k2) ==
    LET delta1 == p1 - a
        delta2 == p2 - a
    IN  FactorDen * a + k1 * delta1 + k2 * delta2

\* vector_merge_driver2, one coordinate: child_vec = ancestor_vec + delta1 +
\* delta2, and where conflict = (delta1 != 0) & (delta2 != 0) the item is
\* overwritten by conflict_vec1 * factor + conflict_vec2 * (1 - factor)
vector_merge_driver2(a, p1, p2, k) ==
    LET delta1 == p1 - a
        delta2 == p2 - a
        conflict == delta1 # 0 /\ delta2 # 0
    IN  IF conflict
        THEN delta1 * k + delta2 * (FactorDen - k)
        ELSE FactorDen * (a + delta1 + delta2)

\* The three files git hands to the driver have been loaded.
VecInit ==
    /\ PipelineIdle
    /\ WindowIdle
    /\ PromptIdle
    /\ RebaseIdle
    /\ CandidatesIdle
    /\ SolverIdle
    /\ RandomIdle
    /\ MsgIdle
    /\ \E a \in Vectors, p1 \in Vectors, p2 \in Vectors :
          vx = [IdleVx EXCEPT !.pc = "loaded", !.ancestor = a,
                              !.parent1 = p1, !.parent2 = p2]
    /\ ResIdle
    /\ OpsIdle
    /\ notes = NoNotes
    /\ EvIdle
    /\ MigIdle
    /\ DecIdle
    /\ TagIdle
    /\ BranchIdle
    /\ BootIdle
    /\ PruneIdle
    /\ SyncIdle

\* A run of vector_merge_driver1.py up to np.save(parent1, child_vec)
VecMerge1 ==
    /\ vx.pc = "loaded"
    /\ \E f1 \in Factors, f2 \in Factors :
          vx' = [vx EXCEPT
                   !.pc = "saved", !.driver = 1, !.factor1 = f1, !.factor2 = f2,
                   !.child = [i \in Coords |->
                                 vector_merge_driver1(vx.ancestor[i], vx.parent1[i],
                                                      vx.parent2[i], f1[i], f2[i])]]
    /\ UNCHANGED notVx

\* A run of vector_merge_driver2.py up to np.save(parent1, child_vec)
VecMerge2 ==
    /\ vx.pc = "loaded"
    /\ \E f \in Factors :
          vx' = [vx EXCEPT
                   !.pc = "saved", !.driver = 2, !.factor1 = f,
                   !.child = [i \in Coords |->
                                 vector_merge_driver2(vx.ancestor[i], vx.parent1[i],
                                                      vx.parent2[i], f[i])]]
    /\ UNCHANGED notVx

VecNext == VecMerge1 \/ VecMerge2

SpecVector == VecInit /\ [][VecNext]_vars

\* Is x in the closed interval between u and v?
Between(x, u, v) == (u <= x /\ x <= v) \/ (v <= x /\ x <= u)

\* C11: at every coordinate where both parent deltas d1 and d2 are
\* non-zero, the child value lies in the closed interval between a + d1
\* and a + d2, for every ancestor value a and every blending factor.
C11_ConflictBlendWithinParents ==
    vx.pc = "saved" =>
        \A i \in Coords :
            LET a == vx.ancestor[i]
                d1 == vx.parent1[i] - a
                d2 == vx.parent2[i] - a
            IN  (d1 # 0 /\ d2 # 0) =>
                    Between(vx.child[i], FactorDen * (a + d1), FactorDen * (a + d2))

\* C12: a coordinate is a conflict exactly when both parent deltas are
\* non-zero; at every other coordinate the child value is the ancestor
\* value plus the single non-zero delta in full (the ancestor value when
\* both are zero), whichever merge driver is configured.
C12_NonConflictTakesFullDelta ==
    vx.pc = "saved" =>
        \A i \in Coords :
            LET a == vx.ancestor[i]
                d1 == vx.parent1[i] - a
                d2 == vx.parent2[i] - a
            IN  ~(d1 # 0 /\ d2 # 0) => vx.child[i] = FactorDen * (a + d1 + d2)

=============================================================================
